---- MODULE Spec2Model ----
(***************************************************************************)
(* Sync engine of the App component (src/App.tsx): initial load/create of  *)
(* the remote document, debounced push, background poll, manual refresh    *)
(* and the offline fallback.                                               *)
(*                                                                         *)
(* Time is counted in seconds.  A timer holds the seconds left until it    *)
(* fires; a timeout-bounded request holds its age.  Tick lets one second   *)
(* pass and is blocked while a timer is due, so a due timer fires before   *)
(* more time passes.                                                       *)
(*                                                                         *)
(* React: a handler (or the continuation of an await) changes state, React *)
(* commits the render, then runs the effects whose dependencies changed.   *)
(* `dirty` says which effects are still to run; while it is set only       *)
(* RunEffects is enabled.  State updates made in one continuation are      *)
(* batched into one render.  The App component is never unmounted          *)
(* (`mounted` stays true).                                                 *)
(***************************************************************************)
EXTENDS Integers, Sequences, FiniteSets, TLC

\* ---------------------------------------------------------------- bounds
\* Steady-state requests (PUT, poll GET, refresh GET) that may be in flight.
MaxInFlight == 1
\* Images uploaded into one editor.
MaxImages == 2
\* Pointer sessions (move or resize) started in one run; a pointer-down
\* that is released without a move is a click and is not counted.
MaxSessions == 2
\* Projects in the list of the document store.
MaxProjects == 3

\* ------------------------------------------------------- program constants
\* setTimeout(..., 1000) of the save effect, in seconds.
DEBOUNCE_S == 1
\* fetchWithTimeout(..., timeout = 5000), in seconds.
FETCH_TIMEOUT_S == 5
\* setInterval(..., 15000) of the poll effect, in seconds.
POLL_S == 15

\* ------------------------------------------------------------ JSON values
\* A JS object is an ordered list of <<key, value>> pairs; a key whose value
\* is "undefined" is present in the object and dropped by JSON.stringify.
Get(obj, key) ==
    LET hits == SelectSeq(obj, LAMBDA kv : kv[1] = key)
    IN  IF hits = <<>> THEN "undefined" ELSE hits[1][2]

\* { ...obj, key: value } for a key the object already has.
SetKey(obj, key, value) ==
    [i \in 1..Len(obj) |-> IF obj[i][1] = key THEN <<key, value>> ELSE obj[i]]

\* INITIAL_PROJECTS: project 1 has a cover image, project 2 has none.
INITIAL_PROJECTS ==
    << << <<"id", "1">>, <<"isDeleted", "false">>, <<"coverImage", "img">> >>,
       << <<"id", "2">>, <<"isDeleted", "false">> >> >>

\* A response body: a JSON array of objects or some other JSON value.
NotList == [isArray |-> FALSE, items |-> <<>>]

StringifyObject(obj) == SelectSeq(obj, LAMBDA kv : kv[2] # "undefined")

\* JSON.stringify(projects)
Stringify(list) ==
    [isArray |-> TRUE, items |-> [i \in 1..Len(list) |-> StringifyObject(list[i])]]

\* await res.json()
ParseBody(body) == body.items

\* (variant: the shape check rejects every body)
IsArray_Never(body) == FALSE

\* (variant: the shape check accepts every body)
IsArray_Always(body) == TRUE

\* Array.isArray(fetchedData)
IsArray(body) == body.isArray

Ids(list) == {Get(list[i], "id") : i \in 1..Len(list)}

\* (variant: the project is taken out of the list)
SoftDelete_Removes(list, id) == SelectSeq(list, LAMBDA p : Get(p, "id") # id)

\* prev.map(p => p.id === id ? { ...p, isDeleted: true } : p)
SoftDelete(list, id) ==
    [i \in 1..Len(list) |->
        IF Get(list[i], "id") = id THEN SetKey(list[i], "isDeleted", "true") ELSE list[i]]

\* prev.map(p => p.id === id ? { ...p, isDeleted: false } : p)
Restore(list, id) ==
    [i \in 1..Len(list) |->
        IF Get(list[i], "id") = id THEN SetKey(list[i], "isDeleted", "false") ELSE list[i]]

\* The list another session keeps in the shared document: the default
\* projects with project 2 moved to the trash.
SHARED_PROJECTS == SoftDelete(INITIAL_PROJECTS, "2")

\* ---------------------------------------------------------------- numbers
\* Pixel values are JS numbers.  They are modelled as exact fractions
\* <<numerator, denominator>> in lowest terms with a positive denominator, so
\* the divisions of startResize are exact; a missing optional field
\* (undefined) is the empty tuple.
Abs(n) == IF n < 0 THEN -n ELSE n

RECURSIVE GCD(_, _)
GCD(a, b) == IF b = 0 THEN a ELSE GCD(b, a % b)

Frac(n, d) ==
    LET g == GCD(Abs(n), Abs(d))
        sign == IF d < 0 THEN -1 ELSE 1
    IN  << sign * (n \div g), sign * (d \div g) >>

Num(n) == << n, 1 >>

Undefined == << >>

\* a + b, a - b, a * b, a / b
Plus(a, b) == Frac(a[1] * b[2] + b[1] * a[2], a[2] * b[2])
Minus(a, b) == Frac(a[1] * b[2] - b[1] * a[2], a[2] * b[2])
Times(a, b) == Frac(a[1] * b[1], a[2] * b[2])
Div(a, b) == Frac(a[1] * b[2], a[2] * b[1])

Less(a, b) == a[1] * b[2] < b[1] * a[2]

\* Math.max(a, b)
Max(a, b) == IF Less(a, b) THEN b ELSE a

\* A number used as a condition: undefined and 0 are falsy.
Truthy(v) == v # Undefined /\ v[1] # 0

\* v || w
OrElse(v, w) == IF Truthy(v) THEN v ELSE w

\* ----------------------------------------------------------------- images
\* An ImageItem (the url plays no part in the geometry and is left out).
NoImage == "<null>"

OptionalFields == {"cropX", "cropY", "originalWidth", "originalHeight"}

ImageFields == {"id", "x", "y", "width", "height", "isCropped"} \cup OptionalFields

\* { ...img, ...updates }
Merge(img, updates) ==
    [f \in DOMAIN img \cup DOMAIN updates |->
        IF f \in DOMAIN updates THEN updates[f] ELSE img[f]]

\* newImg of handleImageUpload; count is images.length of the render whose
\* handler runs, id stands for Date.now().toString().
NewImage(id, count) ==
    [id |-> id,
     x |-> Num(100 + (count % 5) * 40),
     y |-> Num(100 + (count % 5) * 40),
     width |-> Num(300),
     height |-> Num(200),
     isCropped |-> FALSE,
     cropX |-> Undefined,
     cropY |-> Undefined,
     originalWidth |-> Undefined,
     originalHeight |-> Undefined]

\* images.map(img => img.id === id ? { ...img, ...updates } : img)
UpdateImage(list, id, updates) ==
    [i \in 1..Len(list) |-> IF list[i].id = id THEN Merge(list[i], updates) ELSE list[i]]

\* images.filter(img => img.id !== id)
FilterOut(list, id) == SelectSeq(list, LAMBDA img : img.id # id)

ImageIds(list) == {list[i].id : i \in 1..Len(list)}

\* The image with this id (ids are unique in a collection).
ImageOf(list, id) == list[CHOOSE i \in 1..Len(list) : list[i].id = id]

\* JSON.stringify of an image: a key whose value is undefined is left out.
StringifyImage(img) ==
    [f \in {k \in DOMAIN img : k \in OptionalFields => img[k] # Undefined} |-> img[f]]

\* JSON.parse of an image: a key that was left out reads as undefined.
ParseImage(obj) ==
    [f \in ImageFields |-> IF f \in DOMAIN obj THEN obj[f] ELSE Undefined]

\* The resize handles ResizableDraggableImage renders: the four edges and the
\* south-east corner.  A direction is the sequence of its letters.
Directions == { <<"e">>, <<"s">>, <<"n">>, <<"w">>, <<"s", "e">> }

\* direction.includes(c)
Includes(direction, c) == \E i \in 1..Len(direction) : direction[i] = c

\* Pointer deltas (clientX - startX, clientY - startY) of a move event, in
\* pixels.  On a new 300 x 200 frame -400 drives the east and south edges
\* past the opposite edge and 300 the west and north edges onto or past it
\* (a width of exactly 0 before the floor); the other way round they enlarge
\* the frame.  The two differ in size, so either axis can move more.
Deltas == {-400, 300}

\* (variant: the crop offset follows the edge instead of opposing it)
NewCrop_Follows(direction, edge, startCrop, delta) ==
    IF Includes(direction, edge) THEN Plus(startCrop, Num(delta)) ELSE startCrop

\* if (direction.includes('w')) newCropX = startCropX - deltaX; (and 'n')
NewCrop(direction, edge, startCrop, delta) ==
    IF Includes(direction, edge) THEN Minus(startCrop, Num(delta)) ELSE startCrop

\* (variant: the frame size is stored as computed)
AtLeast_Unfloored(floor, v) == v

\* Math.max(20, newW)
AtLeast(floor, v) == Max(Num(floor), v)

\* (variant: corners are locked in crop mode too)
AspectLock_AlsoCropping(isCropping, direction) == Len(direction) = 2

\* if (!isCropping && (direction.length === 2))
AspectLock(isCropping, direction) == ~isCropping /\ Len(direction) = 2

\* handleMove of startResize: the updates handed to onUpdate.  image,
\* isCropping and direction are those the closure captured at pointer-down.
ResizeUpdate(image, isCropping, direction, deltaX, deltaY) ==
    LET startW == image.width
        startH == image.height
        startImgW == OrElse(image.originalWidth, image.width)
        startImgH == OrElse(image.originalHeight, image.height)
        startCropX == OrElse(image.cropX, Num(0))
        startCropY == OrElse(image.cropY, Num(0))
        ratio == Div(startW, startH)
        \* common dimension calculation
        edgeW == CASE Includes(direction, "w") -> Minus(startW, Num(deltaX))
                   [] Includes(direction, "e") -> Plus(startW, Num(deltaX))
                   [] OTHER -> startW
        edgeH == CASE Includes(direction, "n") -> Minus(startH, Num(deltaY))
                   [] Includes(direction, "s") -> Plus(startH, Num(deltaY))
                   [] OTHER -> startH
        newX == IF Includes(direction, "w") THEN Plus(image.x, Num(deltaX)) ELSE image.x
        newY == IF Includes(direction, "n") THEN Plus(image.y, Num(deltaY)) ELSE image.y
        \* aspect ratio lock for corners (unless cropping)
        lock == AspectLock(isCropping, direction)
        byWidth == Abs(deltaX) > Abs(deltaY)
        newH == IF lock /\ byWidth THEN Div(edgeW, ratio) ELSE edgeH
        newW == IF lock /\ ~byWidth THEN Times(edgeH, ratio) ELSE edgeW
    IN  IF isCropping
        THEN [width |-> AtLeast(20, newW),
              height |-> AtLeast(20, newH),
              x |-> newX,
              y |-> newY,
              cropX |-> NewCrop(direction, "w", startCropX, deltaX),
              cropY |-> NewCrop(direction, "n", startCropY, deltaY)]
        ELSE [width |-> AtLeast(20, newW),
              height |-> AtLeast(20, newH),
              x |-> newX,
              y |-> newY,
              originalWidth |-> Times(startImgW, Div(newW, startW)),
              originalHeight |-> Times(startImgH, Div(newH, startH)),
              cropX |-> Times(startCropX, Div(newW, startW)),
              cropY |-> Times(startCropY, Div(newH, startH))]

\* (variant: the frame is kept on the canvas)
MoveUpdate_Clamped(image, deltaX, deltaY) ==
    [x |-> Max(Num(0), Plus(image.x, Num(deltaX))),
     y |-> Max(Num(0), Plus(image.y, Num(deltaY)))]

\* handleMove of startDrag
MoveUpdate(image, deltaX, deltaY) ==
    [x |-> Plus(image.x, Num(deltaX)), y |-> Plus(image.y, Num(deltaY))]

\* (variant: the snapshot does not mark the image as cropped)
InitCrop_NoFlag(img) ==
    [originalWidth |-> img.width,
     originalHeight |-> img.height,
     cropX |-> Num(0),
     cropY |-> Num(0)]

\* onToggleCrop: the updates of the first entry into crop mode.
InitCrop(img) ==
    [isCropped |-> TRUE,
     originalWidth |-> img.width,
     originalHeight |-> img.height,
     cropX |-> Num(0),
     cropY |-> Num(0)]

\* What a renderer draws: the frame rectangle, the size of the inner image
\* ("100%" is the size of the frame) and its translation.
\* (variant: the inner size ignores isCropped)
ReadOnlyGeometry_IgnoresFlag(img) ==
    [x |-> img.x, y |-> img.y, width |-> img.width, height |-> img.height,
     innerWidth |-> IF Truthy(img.originalWidth) THEN img.originalWidth ELSE img.width,
     innerHeight |-> IF Truthy(img.originalHeight) THEN img.originalHeight ELSE img.height,
     translateX |-> OrElse(img.cropX, Num(0)),
     translateY |-> OrElse(img.cropY, Num(0))]

\* ImageCanvasReadOnly: the style of the frame and of the img.
ReadOnlyGeometry(img) ==
    [x |-> img.x, y |-> img.y, width |-> img.width, height |-> img.height,
     innerWidth |-> IF img.isCropped /\ Truthy(img.originalWidth)
                    THEN img.originalWidth ELSE img.width,
     innerHeight |-> IF img.isCropped /\ Truthy(img.originalHeight)
                     THEN img.originalHeight ELSE img.height,
     translateX |-> OrElse(img.cropX, Num(0)),
     translateY |-> OrElse(img.cropY, Num(0))]

\* ResizableDraggableImage: the style of the frame and imgStyle.
EditableGeometry(image) ==
    [x |-> image.x, y |-> image.y, width |-> image.width, height |-> image.height,
     innerWidth |-> IF image.isCropped /\ Truthy(image.originalWidth)
                    THEN image.originalWidth ELSE image.width,
     innerHeight |-> IF image.isCropped /\ Truthy(image.originalHeight)
                     THEN image.originalHeight ELSE image.height,
     translateX |-> OrElse(image.cropX, Num(0)),
     translateY |-> OrElse(image.cropY, Num(0))]

\* ------------------------------------------------------------ identifiers
NoId == "<none>"
\* A slot of the remote store: whether a blob exists there, and its content.
NoBlob == [exists |-> FALSE, body |-> NotList]
Blob(body) == [exists |-> TRUE, body |-> body]
\* Blobs of the remote store: "a" holds a list, "b" holds a non-list value,
\* "n" is the identifier the store gives to the next created blob.  Any other
\* identifier (such as "x") names no blob.
BlobIds == {"a", "b", "n"}
IdInputs == {NoId, "null", "undefined", "a", "b", "x"}
\* The same with the empty string, the value of the parameter in "?syncId=".
AddressInputs == IdInputs \cup {""}

VARIABLES
    \* React state of App
    projects, isInitializing, syncId, syncStatus, hasServerUpdates, isOffline,
    \* the address parameter syncId and localStorage['seupachiba_sync_id']
    urlParam, localStore,
    \* initStorage: position, local variable currentId, pending fetchWithTimeout
    pc, currentId, initReq,
    \* effects still to run after the last commit: "none", "poll", "save"
    dirty,
    \* save effect: pending debounce timers, PUTs in flight
    saveTimers, puts,
    \* poll effect: the interval (with the closure it captured), GETs in flight
    pollTimer, polls,
    \* handleRefresh: GETs in flight
    refreshes,
    \* the remote store
    remote,
    \* history: last step taken; user mutations made in the debounce window
    \* that is open or closed within this second; seconds since the save effect
    \* last ran; PUTs fired since then; seconds since setSyncStatus('saving')
    \* was last called; whether syncStatus is error because a PUT failed and
    \* no save has been scheduled or issued since ("idle": no debounce timer
    \* was pending at the failure, "pending": one was)
    lastOp, burst, sinceChange, putsSinceChange, savingFor, putFailed,
    \* ItemEditor: whether a report or log is being edited, its images in the
    \* project list (item.images), the editor's images state,
    \* uploads waiting for fileToBase64 (each with images.length of the render
    \* that started it), the number of images created so far
    editing, itemImages, images, uploads, created,
    \* ImageCanvas state
    selectedId, croppingId, deleteModalTargetId,
    \* the pointer session (move or resize) whose listeners are registered on
    \* window, with the values its closures captured and the last pointer
    \* delta; the number of sessions started so far
    session, sessions,
    \* history: last canvas step taken
    canvasOp,
    \* ProjectDetail's deleteTarget (with the project it is open on) and
    \* App's confirmModal (with the arguments its onConfirm closed over)
    deleteTarget, confirmModal,
    \* history of the document store: last reducer applied, the project it
    \* was applied to, the list before the last soft-delete, the arguments
    \* of the last sub-item or permanent-delete step
    storeOp, storeId, storeBefore, storeTarget

syncVars == << projects, isInitializing, syncId, syncStatus, hasServerUpdates, isOffline,
               urlParam, localStore, pc, currentId, initReq, dirty, saveTimers, puts,
               pollTimer, polls, refreshes, remote, lastOp, burst,
               sinceChange, putsSinceChange, savingFor, putFailed >>

canvasVars == << editing, itemImages, images, uploads, created, selectedId, croppingId,
                 deleteModalTargetId, session, sessions, canvasOp >>

storeVars == << deleteTarget, confirmModal, storeOp, storeId, storeBefore, storeTarget >>

vars == << syncVars, canvasVars, storeVars >>

reactVars == << projects, isInitializing, syncId, syncStatus, hasServerUpdates, isOffline >>
netVars == << saveTimers, puts, pollTimer, polls, refreshes >>
histVars == << burst, sinceChange, putsSinceChange, savingFor, putFailed >>

NoReq == [kind |-> "none", age |-> 0]
NoTimer == [active |-> FALSE, left |-> 0, projects |-> <<>>, status |-> "saved"]

\* if (!currentId || currentId === "null" || currentId === "undefined")
\*     currentId = localStorage.getItem(...);
\* if (currentId === "null" || currentId === "undefined") currentId = null;
\* !currentId, for null and for a string
Falsy(id) == id = NoId \/ id = ""

\* (variant: the literal strings are not rejected)
ResolveId_KeepsLiterals(url, stored) == IF Falsy(url) THEN stored ELSE url

ResolveId(url, stored) ==
    LET first == IF Falsy(url) \/ url = "null" \/ url = "undefined" THEN stored ELSE url
    IN  IF first = "null" \/ first = "undefined" THEN NoId ELSE first

Synced == ~isInitializing /\ syncId # NoId /\ ~isOffline

\* No pointer session: no listener is registered on window.
NoSession ==
    [kind |-> "none", id |-> NoImage, direction |-> << >>, isCropping |-> FALSE,
     image |-> NewImage(NoImage, 0), images |-> << >>, deltaX |-> 0, deltaY |-> 0]

\* No report or log is being edited: no ItemEditor is mounted.
EditorClosed ==
    /\ editing = FALSE
    /\ itemImages = << >>
    /\ images = << >>
    /\ uploads = << >>
    /\ created = 0
    /\ selectedId = NoImage
    /\ croppingId = NoImage
    /\ deleteModalTargetId = NoImage
    /\ session = NoSession
    /\ sessions = 0
    /\ canvasOp = "none"

\* useState(null) of deleteTarget and confirmModal.
NoTarget == [type |-> "none", projectId |-> NoId, id |-> NoId]

\* No reducer of the document store has run and no confirmation is open.
StoreIdle ==
    /\ deleteTarget = NoTarget
    /\ confirmModal = NoTarget
    /\ storeOp = "none"
    /\ storeId = NoId
    /\ storeBefore = << >>
    /\ storeTarget = NoTarget

\* The state after construction, with the address parameter and the
\* stored identifier drawn from inputs.
InitWith(inputs) ==
    /\ projects = <<>>
    /\ isInitializing = TRUE
    /\ syncId = NoId
    /\ syncStatus = "saved"
    /\ hasServerUpdates = FALSE
    /\ isOffline = FALSE
    /\ urlParam \in inputs
    /\ localStore \in inputs
    /\ pc = "start"
    /\ currentId = NoId
    /\ initReq = NoReq
    /\ dirty = "none"
    /\ saveTimers = {}
    /\ puts = {}
    /\ pollTimer = NoTimer
    /\ polls = {}
    /\ refreshes = {}
    /\ remote = [b \in BlobIds |->
                    CASE b = "a" -> Blob(Stringify(SHARED_PROJECTS))
                      [] b = "b" -> Blob(NotList)
                      [] OTHER   -> NoBlob]
    /\ lastOp = "construct"
    /\ burst = 0
    /\ sinceChange = 0
    /\ putsSinceChange = 0
    /\ savingFor = 0
    /\ putFailed = "no"
    /\ EditorClosed
    /\ StoreIdle

Init == InitWith(IdInputs)

\* ------------------------------------------------------------ initStorage
\* GET/POST through fetchWithTimeout: the request is pending with age 0.
IssueInit(kind) == [kind |-> kind, age |-> 0]

\* Whether GET <id> finds a blob.
Exists(id) == id \in BlobIds /\ remote[id].exists

\* Step 4 and the finally block: setProjects(data); if (currentId) persist
\* it locally and rewrite the address; setIsInitializing(false).  thrown names
\* the statement of step 4 that throws ("no", "setItem", "replaceState"):
\* the outer catch then sets the default projects and offline mode.
FinishInit(data, cid, sid, off, thrown, op) ==
    /\ thrown # "no" => cid # NoId
    /\ projects' = IF thrown = "no" THEN data ELSE INITIAL_PROJECTS
    /\ isOffline' = (off \/ thrown # "no")
    /\ syncId' = sid
    /\ isInitializing' = FALSE
    /\ localStore' = IF cid # NoId /\ thrown # "setItem" THEN cid ELSE localStore
    /\ urlParam' = IF cid # NoId /\ thrown = "no" THEN cid ELSE urlParam
    /\ currentId' = NoId
    /\ initReq' = NoReq
    /\ pc' = "done"
    /\ dirty' = "save"
    /\ lastOp' = IF thrown = "no" THEN op ELSE "initCatch"
    /\ UNCHANGED << syncStatus, hasServerUpdates >>

\* Lines 105-112: no usable identifier, POST the default projects.
StartCreate ==
    /\ currentId' = NoId
    /\ initReq' = IssueInit("create")
    /\ pc' = "create"
    /\ UNCHANGED << reactVars, urlParam, localStore, dirty, netVars, remote, histVars >>

\* Lines 69-84, up to the first await.  Reading the address or localStorage
\* may throw (storage access denied): the outer catch ends initialization.
InitResolve ==
    /\ pc = "start"
    /\ \/ /\ ~Falsy(ResolveId(urlParam, localStore))
          /\ currentId' = ResolveId(urlParam, localStore)
          /\ initReq' = IssueInit("get")
          /\ pc' = "get"
          /\ lastOp' = "initResolve"
          /\ UNCHANGED << reactVars, urlParam, localStore, dirty, netVars, remote, histVars >>
       \/ /\ Falsy(ResolveId(urlParam, localStore))
          /\ StartCreate
          /\ lastOp' = "initResolve"
       \/ /\ projects' = INITIAL_PROJECTS
          /\ isOffline' = TRUE
          /\ isInitializing' = FALSE
          /\ pc' = "done"
          /\ dirty' = "save"
          /\ lastOp' = "initCatch"
          /\ UNCHANGED << syncId, syncStatus, hasServerUpdates, urlParam, localStore,
                          currentId, initReq, netVars, remote, histVars >>

\* Lines 84-103 and, when the GET succeeded with a list, step 4.
InitGetResponse ==
    /\ pc = "get"
    /\ \/ /\ Exists(currentId) /\ IsArray(remote[currentId].body)
          /\ \E thrown \in {"no", "setItem", "replaceState"} :
                FinishInit(ParseBody(remote[currentId].body), currentId, currentId,
                           FALSE, thrown, "initGetOk")
          /\ UNCHANGED << netVars, remote, histVars >>
       \/ /\ Exists(currentId) /\ ~IsArray(remote[currentId].body)
          /\ StartCreate
          /\ lastOp' = "initGetNotList"
       \/ /\ StartCreate
          /\ lastOp' \in {"initGetNotOk", "initGetNetErr"}

\* (variant: the GET is issued without the abort timer)
InitGetTimeout_NoAbort == FALSE

\* controller.abort() after 5 s: fetch rejects, the inner catch runs.
InitGetTimeout ==
    /\ pc = "get"
    /\ initReq.age = FETCH_TIMEOUT_S
    /\ StartCreate
    /\ lastOp' = "initGetTimeout"

\* Lines 114-135 and step 4.  loc: the response has a readable Location.
InitCreateResponse ==
    /\ pc = "create"
    /\ \/ /\ remote' = [remote EXCEPT !["n"] = Blob(Stringify(INITIAL_PROJECTS))]
          /\ \E thrown \in {"no", "setItem", "replaceState"} :
                FinishInit(INITIAL_PROJECTS, "n", "n", FALSE, thrown, "initCreateOk")
          /\ UNCHANGED << netVars, histVars >>
       \/ /\ remote' = [remote EXCEPT !["n"] = Blob(Stringify(INITIAL_PROJECTS))]
          /\ FinishInit(INITIAL_PROJECTS, NoId, NoId, FALSE, "no", "initCreateNoLocation")
          /\ UNCHANGED << netVars, histVars >>
       \/ /\ \E op \in {"initCreateNotOk", "initCreateNetErr"} :
                FinishInit(INITIAL_PROJECTS, NoId, NoId, TRUE, "no", op)
          /\ UNCHANGED << netVars, remote, histVars >>

InitCreateTimeout ==
    /\ pc = "create"
    /\ initReq.age = FETCH_TIMEOUT_S
    /\ FinishInit(INITIAL_PROJECTS, NoId, NoId, TRUE, "no", "initCreateTimeout")
    /\ UNCHANGED << netVars, remote, histVars >>

\* ---------------------------------------------------------------- effects
\* Save effect, lines 166-186.  The cleanup of the previous run clears its
\* timer; the body returns early unless the session is synced, else it
\* schedules the PUT with the projects of this render.
\* (variant: the early return does not look at isOffline)
SaveEffectTimers_IgnoreOffline ==
    IF ~isInitializing THEN {[left |-> DEBOUNCE_S, projects |-> projects]} ELSE {}

\* (variant: the early return also looks at hasServerUpdates)
SaveEffectTimers_BlockedByFlag ==
    IF Synced /\ ~hasServerUpdates
    THEN {[left |-> DEBOUNCE_S, projects |-> projects]}
    ELSE {}

\* (variant: the effect returns no cleanup, so the previous timer stays)
SaveEffectTimers_NoCleanup ==
    IF Synced
    THEN saveTimers \cup {[left |-> DEBOUNCE_S, projects |-> projects]}
    ELSE saveTimers

SaveEffectTimers ==
    IF Synced THEN {[left |-> DEBOUNCE_S, projects |-> projects]} ELSE {}

SaveEffectStatus == IF Synced THEN "saving" ELSE syncStatus

\* (variant: the poll effect's early return does not look at isOffline)
PollEffectTimer_IgnoreOffline(status) ==
    IF ~isInitializing /\ syncId # NoId
    THEN [active |-> TRUE, left |-> POLL_S, projects |-> projects, status |-> status]
    ELSE NoTimer

\* Poll effect, lines 189-212.  The cleanup clears the interval; the body
\* returns early unless synced, else it starts an interval whose callback
\* closes over the projects and the syncStatus of the render it ran in.
PollEffectTimer(status) ==
    IF Synced
    THEN [active |-> TRUE, left |-> POLL_S, projects |-> projects, status |-> status]
    ELSE NoTimer

\* React runs the effects whose dependencies changed in the last commit.
\* The save effect's setSyncStatus('saving') causes one more render, after
\* which the poll effect runs again with the new syncStatus.
RunEffects ==
    /\ dirty # "none"
    /\ IF dirty = "save"
       THEN /\ saveTimers' = SaveEffectTimers
            /\ syncStatus' = SaveEffectStatus
            /\ sinceChange' = 0
            /\ putsSinceChange' = 0
            /\ savingFor' = IF Synced THEN 0 ELSE savingFor
       ELSE UNCHANGED << saveTimers, syncStatus, sinceChange, putsSinceChange, savingFor >>
    /\ putFailed' = IF dirty = "save" THEN "no" ELSE putFailed
    /\ pollTimer' = PollEffectTimer(syncStatus')
    /\ dirty' = "none"
    /\ lastOp' = IF dirty = "save" THEN "saveEffect" ELSE "pollEffect"
    /\ UNCHANGED << projects, isInitializing, syncId, hasServerUpdates, isOffline,
                    urlParam, localStore, pc, currentId, initReq, puts, polls,
                    refreshes, remote, burst >>

\* ------------------------------------------------------- local mutations
\* A handler that replaces the project list: React commits the new list and
\* the save and poll effects are due.
SetProjects(list, op) ==
    /\ ~isInitializing
    /\ dirty = "none"
    /\ projects' = list
    /\ dirty' = "save"
    /\ lastOp' = op
    /\ burst' = IF saveTimers = {} THEN 1 ELSE IF burst < 2 THEN burst + 1 ELSE burst
    /\ UNCHANGED << isInitializing, syncId, syncStatus, hasServerUpdates, isOffline,
                    urlParam, localStore, pc, currentId, initReq, netVars, remote,
                    sinceChange, putsSinceChange, savingFor, putFailed >>

HandleDeleteProject ==
    \E i \in 1..Len(projects) :
        /\ Get(projects[i], "isDeleted") = "false"
        /\ SetProjects(SoftDelete(projects, Get(projects[i], "id")), "mutate")

HandleRestoreProject ==
    \E i \in 1..Len(projects) :
        /\ Get(projects[i], "isDeleted") = "true"
        /\ SetProjects(Restore(projects, Get(projects[i], "id")), "mutate")

\* ------------------------------------------------------------------ push
InFlight == Cardinality(puts) + Cardinality(polls) + Cardinality(refreshes)

\* The debounce timer fires: fetch(PUT, JSON.stringify(projects)) with the
\* projects the timer closed over.  Plain fetch: no abort is scheduled.
SaveTimerFire ==
    /\ dirty = "none"
    /\ InFlight < MaxInFlight
    /\ \E t \in saveTimers :
          /\ t.left = 0
          /\ saveTimers' = saveTimers \ {t}
          /\ puts' = puts \cup {[body |-> Stringify(t.projects)]}
    /\ putsSinceChange' = IF putsSinceChange < 2 THEN putsSinceChange + 1 ELSE 2
    /\ lastOp' = "putIssued"
    /\ putFailed' = "no"
    /\ UNCHANGED << reactVars, urlParam, localStore, pc, currentId, initReq, dirty,
                    pollTimer, polls, refreshes, remote, burst, sinceChange,
                    savingFor >>

\* What the continuation after `await fetch(PUT)` does with the outcome:
\* fetch resolves for every response, whatever its status, and rejects only
\* when there is no response.
PutStatus(outcome) == IF outcome = "neterr" THEN "error" ELSE "saved"

PutFlag(outcome) == IF outcome = "neterr" THEN hasServerUpdates ELSE FALSE

\* (variant: the save effect also depends on syncStatus)
PutEffects_Save(old, new) == IF new # old THEN "save" ELSE "none"

\* The effects due after the continuation's setSyncStatus: syncStatus is a
\* dependency of the poll effect only, not of the save effect.
PutEffects(old, new) == IF new # old THEN "poll" ELSE "none"

\* The remote store answers a PUT ("ok": the blob is replaced by the body;
\* "notok": rejected with a non-success status) or the request fails.
PutResponse ==
    /\ dirty = "none"
    /\ \E p \in puts, outcome \in {"ok", "notok", "neterr"} :
          /\ puts' = puts \ {p}
          /\ remote' = IF outcome = "ok"
                        THEN [remote EXCEPT ![syncId] = Blob(p.body)]
                        ELSE remote
          /\ syncStatus' = PutStatus(outcome)
          /\ hasServerUpdates' = PutFlag(outcome)
          /\ lastOp' = CASE outcome = "ok" -> "putOk"
                          [] outcome = "notok" -> "putNotOk"
                          [] OTHER -> "putNetErr"
          /\ putFailed' = CASE outcome # "neterr" -> "no"
                             [] saveTimers = {} -> "idle"
                             [] OTHER -> "pending"
    /\ dirty' = PutEffects(syncStatus, syncStatus')
    /\ savingFor' = 0
    /\ UNCHANGED << projects, isInitializing, syncId, isOffline, urlParam, localStore,
                    pc, currentId, initReq, saveTimers, pollTimer, polls, refreshes,
                    burst, sinceChange, putsSinceChange >>

\* ------------------------------------------------------------------ poll
\* The interval fires: fetch(GET) is issued by the callback, which keeps
\* the closure of the render its effect ran in; the interval repeats.
PollFire ==
    /\ dirty = "none"
    /\ pollTimer.active /\ pollTimer.left = 0
    /\ InFlight < MaxInFlight
    /\ polls' = polls \cup {[projects |-> pollTimer.projects, status |-> pollTimer.status]}
    /\ pollTimer' = [pollTimer EXCEPT !.left = POLL_S]
    /\ lastOp' = "pollIssued"
    /\ UNCHANGED << reactVars, urlParam, localStore, pc, currentId, initReq, dirty,
                    saveTimers, puts, refreshes, remote, histVars >>

\* (variant: the body is compared without the shape check)
PollRaises_AnyBody(closure, body) ==
    /\ Stringify(closure.projects) # Stringify(ParseBody(body))
    /\ closure.status # "saving"

\* if (currentStr !== serverStr && syncStatus !== 'saving') with the
\* projects and syncStatus of the callback's closure.
PollRaises(closure, body) ==
    /\ IsArray(body)
    /\ Stringify(closure.projects) # Stringify(ParseBody(body))
    /\ closure.status # "saving"

\* The poll GET is answered with the blob, or fails (non-OK status, no
\* response): failures are swallowed.
PollResponse ==
    /\ dirty = "none"
    /\ \E q \in polls, outcome \in {"ok", "notok", "neterr"} :
          /\ polls' = polls \ {q}
          /\ IF outcome = "ok" /\ PollRaises(q, remote[syncId].body)
             THEN /\ hasServerUpdates' = TRUE
                  /\ lastOp' = "pollRaise"
             ELSE /\ UNCHANGED hasServerUpdates
                  /\ lastOp' = IF outcome = "ok" THEN "pollQuiet" ELSE "pollFail"
    /\ UNCHANGED << projects, isInitializing, syncId, syncStatus, isOffline, urlParam,
                    localStore, pc, currentId, initReq, dirty, saveTimers, puts,
                    pollTimer, refreshes, remote, histVars >>

\* --------------------------------------------------------------- refresh
\* handleRefresh up to its await: returns at once without an identifier or
\* offline, else sets syncStatus to saving and issues the GET.
HandleRefresh ==
    /\ ~isInitializing
    /\ dirty = "none"
    /\ IF syncId = NoId \/ isOffline
       THEN /\ lastOp' = "refreshIgnored"
            /\ UNCHANGED << syncStatus, refreshes, dirty, savingFor, putFailed >>
       ELSE /\ InFlight < MaxInFlight
            /\ syncStatus' = "saving"
            /\ savingFor' = 0
            /\ putFailed' = "no"
            /\ refreshes' = refreshes \cup {[age |-> 0]}
            /\ dirty' = IF syncStatus # "saving" THEN "poll" ELSE "none"
            /\ lastOp' = "refreshIssued"
    /\ UNCHANGED << projects, isInitializing, syncId, hasServerUpdates, isOffline,
                    urlParam, localStore, pc, currentId, initReq, saveTimers, puts,
                    pollTimer, polls, remote, burst, sinceChange,
                    putsSinceChange >>

\* (variant: the fetched projects are appended to the local ones)
RefreshProjects_Merge(body) == projects \o ParseBody(body)

\* Lines 222-228: the GET answered OK with a list.
RefreshProjects(body) == ParseBody(body)

RefreshSuccess ==
    /\ dirty = "none"
    /\ \E r \in refreshes : refreshes' = refreshes \ {r}
    /\ remote[syncId].exists /\ IsArray(remote[syncId].body)
    /\ projects' = RefreshProjects(remote[syncId].body)
    /\ syncStatus' = "saved"
    /\ hasServerUpdates' = FALSE
    /\ dirty' = "save"
    /\ lastOp' = "refreshOk"
    /\ savingFor' = 0
    /\ putFailed' = "no"
    /\ burst' = 0
    /\ UNCHANGED << isInitializing, syncId, isOffline, urlParam, localStore, pc,
                    currentId, initReq, saveTimers, puts, pollTimer, polls, remote,
                    sinceChange, putsSinceChange >>

\* Lines 229-239: a non-list body, a non-OK status, no response, or the
\* abort at the timeout all end in the catch block.
\* (variant: the catch block leaves the status set before the await)
RefreshFailStatus_Saving == "saving"

\* setSyncStatus('error') of the catch block.
RefreshFailStatus == "error"

RefreshFail(r, op) ==
    /\ dirty = "none"
    /\ refreshes' = refreshes \ {r}
    /\ syncStatus' = RefreshFailStatus
    /\ dirty' = IF syncStatus' # syncStatus THEN "poll" ELSE "none"
    /\ lastOp' = op
    /\ savingFor' = 0
    /\ putFailed' = "no"
    /\ UNCHANGED << projects, isInitializing, syncId, hasServerUpdates, isOffline,
                    urlParam, localStore, pc, currentId, initReq, saveTimers, puts,
                    pollTimer, polls, remote, burst, sinceChange,
                    putsSinceChange >>

RefreshFailure ==
    \E r \in refreshes :
        \/ /\ remote[syncId].exists /\ ~IsArray(remote[syncId].body)
           /\ RefreshFail(r, "refreshNotList")
        \/ RefreshFail(r, "refreshNotOk")
        \/ RefreshFail(r, "refreshNetErr")

RefreshTimeout ==
    \E r \in refreshes :
        /\ r.age = FETCH_TIMEOUT_S
        /\ RefreshFail(r, "refreshTimeout")

\* ----------------------------------------------------------- environment
\* Bodies another session (or anyone holding the link) writes to the blob.
OtherBodies == {Stringify(SHARED_PROJECTS), Stringify(INITIAL_PROJECTS), NotList}

OtherSessionPut ==
    /\ Synced
    /\ dirty = "none"
    /\ \E b \in OtherBodies :
          /\ remote[syncId].body # b
          /\ remote' = [remote EXCEPT ![syncId] = Blob(b)]
    /\ lastOp' = "otherPut"
    /\ UNCHANGED << reactVars, urlParam, localStore, pc, currentId, initReq, dirty,
                    netVars, histVars >>

\* One second passes, unless a timer or a timeout is due.
Tick ==
    /\ dirty = "none"
    /\ \A t \in saveTimers : t.left > 0
    /\ pollTimer.active => pollTimer.left > 0
    /\ initReq.kind # "none" => initReq.age < FETCH_TIMEOUT_S
    /\ \A r \in refreshes : r.age < FETCH_TIMEOUT_S
    /\ saveTimers' = {[t EXCEPT !.left = @ - 1] : t \in saveTimers}
    /\ pollTimer' = IF pollTimer.active THEN [pollTimer EXCEPT !.left = @ - 1] ELSE pollTimer
    /\ initReq' = IF initReq.kind # "none" THEN [initReq EXCEPT !.age = @ + 1] ELSE initReq
    /\ refreshes' = {[r EXCEPT !.age = @ + 1] : r \in refreshes}
    /\ savingFor' = IF syncStatus = "saving" /\ savingFor <= DEBOUNCE_S + FETCH_TIMEOUT_S
                    THEN savingFor + 1 ELSE savingFor
    /\ sinceChange' = IF sinceChange > DEBOUNCE_S THEN sinceChange ELSE sinceChange + 1
    /\ burst' = IF saveTimers = {} THEN 0 ELSE burst
    /\ lastOp' = "tick"
    /\ UNCHANGED << reactVars, urlParam, localStore, pc, currentId, dirty, puts, polls,
                    remote, putsSinceChange, putFailed >>

Next ==
    \/ InitResolve /\ UNCHANGED << canvasVars, storeVars >>
    \/ InitGetResponse /\ UNCHANGED << canvasVars, storeVars >>
    \/ InitGetTimeout /\ UNCHANGED << canvasVars, storeVars >>
    \/ InitCreateResponse /\ UNCHANGED << canvasVars, storeVars >>
    \/ InitCreateTimeout /\ UNCHANGED << canvasVars, storeVars >>
    \/ RunEffects /\ UNCHANGED << canvasVars, storeVars >>
    \/ HandleDeleteProject /\ UNCHANGED << canvasVars, storeVars >>
    \/ HandleRestoreProject /\ UNCHANGED << canvasVars, storeVars >>
    \/ SaveTimerFire /\ UNCHANGED << canvasVars, storeVars >>
    \/ PutResponse /\ UNCHANGED << canvasVars, storeVars >>
    \/ PollFire /\ UNCHANGED << canvasVars, storeVars >>
    \/ PollResponse /\ UNCHANGED << canvasVars, storeVars >>
    \/ HandleRefresh /\ UNCHANGED << canvasVars, storeVars >>
    \/ RefreshSuccess /\ UNCHANGED << canvasVars, storeVars >>
    \/ RefreshFailure /\ UNCHANGED << canvasVars, storeVars >>
    \/ RefreshTimeout /\ UNCHANGED << canvasVars, storeVars >>
    \/ OtherSessionPut /\ UNCHANGED << canvasVars, storeVars >>
    \/ Tick /\ UNCHANGED << canvasVars, storeVars >>

Spec == Init /\ [][Next]_vars

\* Initialization alone, with the scheduling the runtime guarantees: the
\* effect that calls initStorage runs, time passes, and an abort timer that
\* is due fires.  Nothing is assumed about the remote store answering.
InitNext ==
    \/ InitResolve /\ UNCHANGED << canvasVars, storeVars >>
    \/ InitGetResponse /\ UNCHANGED << canvasVars, storeVars >>
    \/ InitGetTimeout /\ UNCHANGED << canvasVars, storeVars >>
    \/ InitCreateResponse /\ UNCHANGED << canvasVars, storeVars >>
    \/ InitCreateTimeout /\ UNCHANGED << canvasVars, storeVars >>
    \/ Tick /\ UNCHANGED << canvasVars, storeVars >>

InitSpec ==
    /\ Init
    /\ [][InitNext]_vars
    /\ WF_syncVars(InitResolve)
    /\ WF_syncVars(InitGetTimeout)
    /\ WF_syncVars(InitCreateTimeout)
    /\ WF_syncVars(Tick)

\* Initialization from every address parameter and stored identifier,
\* the empty string included.
ResolveInit == InitWith(AddressInputs)

ResolveSpec == ResolveInit /\ [][InitNext]_vars

\* ============================================================ image canvas
\* ItemEditor keeps the images of the report or log being edited in its own
\* state and hands them to ImageCanvas, whose onChange is setImages.  The
\* handlers of a pointer session stay registered on window from pointer-down
\* to pointer-up and keep the closure of the render they were created in.

\* The sync engine at rest with this project list: initialization ended
\* offline, nothing is pending.
SyncIdle(list) ==
    /\ projects = list
    /\ isInitializing = FALSE
    /\ syncId = NoId
    /\ syncStatus = "saved"
    /\ hasServerUpdates = FALSE
    /\ isOffline = TRUE
    /\ urlParam = NoId
    /\ localStore = NoId
    /\ pc = "done"
    /\ currentId = NoId
    /\ initReq = NoReq
    /\ dirty = "none"
    /\ saveTimers = {}
    /\ puts = {}
    /\ pollTimer = NoTimer
    /\ polls = {}
    /\ refreshes = {}
    /\ remote = [b \in BlobIds |-> NoBlob]
    /\ lastOp = "saveEffect"
    /\ burst = 0
    /\ sinceChange = 0
    /\ putsSinceChange = 0
    /\ savingFor = 0
    /\ putFailed = "no"

CanvasInit == SyncIdle(INITIAL_PROJECTS) /\ EditorClosed /\ StoreIdle

\* The frame of a canvas step: the sync engine and the store history rest.
CanvasStep(op) ==
    /\ canvasOp' = op
    /\ UNCHANGED << syncVars, storeVars >>

\* setEditingReportId(report.id): ItemEditor mounts,
\* useState(item.images || []); ImageCanvas mounts with nothing selected.
OpenEditor ==
    /\ ~editing
    /\ editing' = TRUE
    /\ images' = itemImages
    /\ uploads' = << >>
    /\ selectedId' = NoImage
    /\ croppingId' = NoImage
    /\ deleteModalTargetId' = NoImage
    /\ session' = NoSession
    /\ CanvasStep("open")
    /\ UNCHANGED << itemImages, created, sessions >>

\* The pointer is free: no session holds it and the delete modal, which
\* covers the page, is closed.
PointerFree == editing /\ session.kind = "none" /\ deleteModalTargetId = NoImage

\* handleImageUpload up to its await: fileToBase64 starts; the handler
\* keeps images.length of this render for the offset.
HandleImageUpload ==
    /\ PointerFree
    /\ created + Len(uploads) < MaxImages
    /\ uploads' = Append(uploads, Len(images))
    /\ CanvasStep("uploadStart")
    /\ UNCHANGED << editing, itemImages, images, created, selectedId, croppingId,
                    deleteModalTargetId, session, sessions >>

\* fileToBase64 resolved: setImages(prev => [...prev, newImg]).
UploadDone ==
    /\ editing
    /\ uploads # << >>
    /\ images' = Append(images, NewImage(ToString(created + 1), Head(uploads)))
    /\ uploads' = Tail(uploads)
    /\ created' = created + 1
    /\ CanvasStep("add")
    /\ UNCHANGED << editing, itemImages, selectedId, croppingId, deleteModalTargetId,
                    session, sessions >>

\* fileToBase64 rejected: the catch block reports it, nothing is added.
UploadFailed ==
    /\ editing
    /\ uploads # << >>
    /\ uploads' = Tail(uploads)
    /\ CanvasStep("uploadFailed")
    /\ UNCHANGED << editing, itemImages, images, created, selectedId, croppingId,
                    deleteModalTargetId, session, sessions >>

\* handleCanvasClick on the empty canvas.
HandleCanvasClick ==
    /\ PointerFree
    /\ selectedId' = NoImage
    /\ croppingId' = NoImage
    /\ CanvasStep("deselect")
    /\ UNCHANGED << editing, itemImages, images, uploads, created, deleteModalTargetId,
                    session, sessions >>

\* A click on an image (pointer-down and pointer-up with no move between):
\* startDrag and the onClick of the frame both call onSelect.
OnSelect ==
    /\ PointerFree
    /\ \E i \in 1..Len(images) : selectedId' = images[i].id
    /\ CanvasStep("select")
    /\ UNCHANGED << editing, itemImages, images, uploads, created, croppingId,
                    deleteModalTargetId, session, sessions >>

\* startDrag, pointer-down on an image: onSelect, then (unless this image
\* is in crop mode) the move session starts.
StartDrag ==
    /\ PointerFree
    /\ sessions < MaxSessions
    /\ \E i \in 1..Len(images) :
          /\ selectedId' = images[i].id
          /\ IF croppingId = images[i].id
             THEN /\ CanvasStep("pointerDown")
                  /\ UNCHANGED session
             ELSE /\ session' = [kind |-> "move", id |-> images[i].id, direction |-> << >>,
                                 isCropping |-> FALSE, image |-> images[i],
                                 images |-> images, deltaX |-> 0, deltaY |-> 0]
                  /\ CanvasStep("startDrag")
    /\ sessions' = sessions + 1
    /\ UNCHANGED << editing, itemImages, images, uploads, created, croppingId,
                    deleteModalTargetId >>

\* startResize, pointer-down on a handle of the selected image; directions
\* are the handles the pointer may go down on.
StartResize(directions) ==
    /\ PointerFree
    /\ selectedId \in ImageIds(images)
    /\ sessions < MaxSessions
    /\ \E direction \in directions :
          session' = [kind |-> "resize", id |-> selectedId, direction |-> direction,
                      isCropping |-> (croppingId = selectedId),
                      image |-> ImageOf(images, selectedId),
                      images |-> images, deltaX |-> 0, deltaY |-> 0]
    /\ sessions' = sessions + 1
    /\ CanvasStep("startResize")
    /\ UNCHANGED << editing, itemImages, images, uploads, created, selectedId,
                    croppingId, deleteModalTargetId >>

\* What the session's handleMove hands to onUpdate for a pointer delta.
SessionUpdate(deltaX, deltaY) ==
    IF session.kind = "move"
    THEN MoveUpdate(session.image, deltaX, deltaY)
    ELSE ResizeUpdate(session.image, session.isCropping, session.direction,
                      deltaX, deltaY)

\* handleMove: onUpdate is updateImage of the render the session started
\* in, so it maps over the images of that render.  deltas are the
\* distances the pointer may be from where it went down, on either axis.
PointerMove(deltas) ==
    /\ editing
    /\ session.kind # "none"
    /\ \E deltaX \in deltas, deltaY \in deltas :
          /\ images' = UpdateImage(session.images, session.id,
                                   SessionUpdate(deltaX, deltaY))
          /\ session' = [session EXCEPT !.deltaX = deltaX, !.deltaY = deltaY]
    /\ CanvasStep(session.kind)
    /\ UNCHANGED << editing, itemImages, uploads, created, selectedId, croppingId,
                    deleteModalTargetId, sessions >>

\* handleUp: the listeners are removed.  The click that follows a
\* pointer-up on the image selects it again.
PointerUp ==
    /\ editing
    /\ session.kind # "none"
    /\ session' = NoSession
    /\ CanvasStep("pointerUp")
    /\ UNCHANGED << editing, itemImages, images, uploads, created, selectedId,
                    croppingId, deleteModalTargetId, sessions >>

\* onToggleCrop of the selected image (the toolbar is rendered for it only).
OnToggleCrop ==
    /\ PointerFree
    /\ selectedId \in ImageIds(images)
    /\ IF croppingId = selectedId
       THEN /\ croppingId' = NoImage
            /\ UNCHANGED images
       ELSE /\ croppingId' = selectedId
            /\ images' = IF ~ImageOf(images, selectedId).isCropped
                         THEN UpdateImage(images, selectedId,
                                          InitCrop(ImageOf(images, selectedId)))
                         ELSE images
    /\ CanvasStep("toggleCrop")
    /\ UNCHANGED << editing, itemImages, uploads, created, selectedId,
                    deleteModalTargetId, session, sessions >>

\* onDeleteRequest of the selected image: the modal opens.
OnDeleteRequest ==
    /\ PointerFree
    /\ selectedId \in ImageIds(images)
    /\ deleteModalTargetId' = selectedId
    /\ CanvasStep("requestDelete")
    /\ UNCHANGED << editing, itemImages, images, uploads, created, selectedId,
                    croppingId, session, sessions >>

\* confirmDelete of ImageCanvas.
ConfirmDelete ==
    /\ editing
    /\ deleteModalTargetId # NoImage
    /\ images' = FilterOut(images, deleteModalTargetId)
    /\ selectedId' = NoImage
    /\ deleteModalTargetId' = NoImage
    /\ CanvasStep("confirmDelete")
    /\ UNCHANGED << editing, itemImages, uploads, created, croppingId, session,
                    sessions >>

\* onCancel of the modal.
CancelDelete ==
    /\ editing
    /\ deleteModalTargetId # NoImage
    /\ deleteModalTargetId' = NoImage
    /\ CanvasStep("cancelDelete")
    /\ UNCHANGED << editing, itemImages, images, uploads, created, selectedId,
                    croppingId, session, sessions >>

\* The editor unmounts: its state is gone and a pending upload resolves
\* into nothing.
Unmount ==
    /\ editing' = FALSE
    /\ images' = << >>
    /\ uploads' = << >>
    /\ selectedId' = NoImage
    /\ croppingId' = NoImage
    /\ deleteModalTargetId' = NoImage
    /\ session' = NoSession

\* The save button: onSave({ ..., images }) -> handleSaveReport /
\* handleSaveLog write the item into the project list and close the editor.
HandleSaveItem ==
    /\ PointerFree
    /\ itemImages' = images
    /\ Unmount
    /\ CanvasStep("save")
    /\ UNCHANGED << created, sessions >>

\* (variant: leaving the editor writes its images into the project list)
HandleCancelItem_Saves ==
    /\ PointerFree
    /\ itemImages' = images
    /\ Unmount
    /\ CanvasStep("cancel")
    /\ UNCHANGED << created, sessions >>

\* The cancel button: onCancel -> setEditingReportId(null).
HandleCancelItem ==
    /\ PointerFree
    /\ Unmount
    /\ CanvasStep("cancel")
    /\ UNCHANGED << itemImages, created, sessions >>

\* The project list goes through JSON (pushed, then fetched again by a
\* refresh or by another session's start) while no editor is open.
JsonRoundTrip ==
    /\ ~editing
    /\ canvasOp # "roundTrip"
    /\ itemImages' = [i \in 1..Len(itemImages) |->
                        ParseImage(StringifyImage(itemImages[i]))]
    /\ CanvasStep("roundTrip")
    /\ UNCHANGED << editing, images, uploads, created, selectedId, croppingId,
                    deleteModalTargetId, session, sessions >>

\* The canvas as a whole: every operation of the editor and the canvas on
\* a collection of images.  What the canvas does with an update does not
\* depend on the geometry in it, so the pointer goes down on the corner
\* handle only and moves to one place; the report or log that is opened
\* has no images yet (GeometrySpec edits a saved one again).
CanvasDirections == { <<"s", "e">> }

CanvasDeltas == {-400}

CanvasNext ==
    \/ itemImages = << >> /\ OpenEditor
    \/ HandleImageUpload
    \/ UploadDone
    \/ UploadFailed
    \/ HandleCanvasClick
    \/ OnSelect
    \/ StartDrag
    \/ StartResize(CanvasDirections)
    \/ PointerMove(CanvasDeltas)
    \/ PointerUp
    \/ OnToggleCrop
    \/ OnDeleteRequest
    \/ ConfirmDelete
    \/ CancelDelete
    \/ HandleSaveItem
    \/ HandleCancelItem
    \/ JsonRoundTrip

CanvasSpec == CanvasInit /\ [][CanvasNext]_vars

\* The geometry of one image: an editor with one uploaded image, on which
\* the pointer goes down on every handle and moves by every delta; the
\* report is saved, read back and edited again.
GeometryInit ==
    /\ SyncIdle(INITIAL_PROJECTS)
    /\ StoreIdle
    /\ editing = TRUE
    /\ itemImages = << >>
    /\ images = << NewImage("1", 0) >>
    /\ uploads = << >>
    /\ created = 1
    /\ selectedId = NoImage
    /\ croppingId = NoImage
    /\ deleteModalTargetId = NoImage
    /\ session = NoSession
    /\ sessions = 0
    /\ canvasOp = "add"

GeometryNext ==
    \/ HandleCanvasClick
    \/ OnSelect
    \/ StartDrag
    \/ StartResize(Directions)
    \/ PointerMove(Deltas)
    \/ PointerUp
    \/ OnToggleCrop
    \/ HandleSaveItem
    \/ JsonRoundTrip
    \/ OpenEditor

GeometrySpec == GeometryInit /\ [][GeometryNext]_vars

\* ========================================================= document store
\* The reducers of App over the whole project tree.  A project is the
\* object with all its fields: reports and logs are lists of objects, each
\* with its own isDeleted; a project made by NewProduct without a cover
\* image has coverImage: undefined.
Item(id, deleted) == << <<"id", id>>, <<"images", << >> >>, <<"isDeleted", deleted>> >>

\* Project 1 has a report in the trash, a sibling report and a log whose id
\* is the id of that report; the projects after project 2 have a report with
\* the same id as a report of project 1.
StoreProject(id, deleted) ==
    CASE id = "1" ->
           << <<"id", id>>, <<"isDeleted", deleted>>, <<"coverImage", "img">>,
              <<"reports", << Item("r1", "true"), Item("r2", "false") >> >>,
              <<"logs", << Item("r1", "false") >> >>,
              <<"recipe", "recipe">> >>
      [] id = "2" ->
           << <<"id", id>>, <<"isDeleted", deleted>>,
              <<"reports", << >> >>, <<"logs", << >> >>, <<"recipe", "null">> >>
      [] OTHER ->
           << <<"id", id>>, <<"coverImage", "undefined">>,
              <<"reports", << Item("r1", "false") >> >>,
              <<"logs", << >> >>,
              <<"recipe", "null">>, <<"isDeleted", deleted>> >>

\* Project lists the session may hold: the default projects and the ones
\* added to them, each in the trash or not.
StoreLists ==
    UNION { { [i \in 1..n |-> StoreProject(ToString(i), flags[i])] :
                flags \in [1..n -> {"true", "false"}] } : n \in 1..MaxProjects }

StoreInit ==
    /\ \E list \in StoreLists : SyncIdle(list)
    /\ EditorClosed
    /\ StoreIdle

\* projects.find(p => p.id === id), for an id in the list
Find(list, id) == list[CHOOSE i \in 1..Len(list) : Get(list[i], "id") = id]

\* handleUpdateProject: prev.map(p => p.id === updatedProject.id ? updatedProject : p)
UpdateProject(list, updatedProject) ==
    [i \in 1..Len(list) |->
        IF Get(list[i], "id") = Get(updatedProject, "id") THEN updatedProject ELSE list[i]]

\* (variant: the flag is set on every item of the list)
SoftDeleteItem_All(items, id) ==
    [i \in 1..Len(items) |-> SetKey(items[i], "isDeleted", "true")]

\* project.reports.map(r => r.id === deleteTarget.id ? { ...r, isDeleted: true } : r)
SoftDeleteItem(items, id) ==
    [i \in 1..Len(items) |->
        IF Get(items[i], "id") = id THEN SetKey(items[i], "isDeleted", "true") ELSE items[i]]

\* The key of a project that holds the items of this type.
ItemsKey(type) == IF type \in {"REPORT", "report"} THEN "reports" ELSE "logs"

\* confirmDelete of ProjectDetail for a REPORT or LOG target:
\* onUpdateProject({ ...project, reports: updatedReports })
SoftDeleteSubItem(list, project, type, itemId) ==
    UpdateProject(list, SetKey(project, ItemsKey(type),
                               SoftDeleteItem(Get(project, ItemsKey(type)), itemId)))

\* handleRestoreSubItem
RestoreSubItem(list, projectId, type, itemId) ==
    [i \in 1..Len(list) |->
        IF Get(list[i], "id") # projectId
        THEN list[i]
        ELSE SetKey(list[i], ItemsKey(type),
                    Restore(Get(list[i], ItemsKey(type)), itemId))]

\* (variant: the reducer runs when the confirmation is requested)
PermanentRequestList_Eager(list, target) ==
    SelectSeq(list, LAMBDA p : Get(p, "id") # target.id)

\* handlePermanentDeleteProject / handlePermanentDeleteSubItem up to
\* setConfirmModal: the project list is not touched.
PermanentRequestList(list, target) == list

\* onConfirm of handlePermanentDeleteProject: prev.filter(p => p.id !== id)
PermanentDeleteProject(list, id) == SelectSeq(list, LAMBDA p : Get(p, "id") # id)

\* onConfirm of handlePermanentDeleteSubItem
PermanentDeleteSubItem(list, projectId, type, itemId) ==
    [i \in 1..Len(list) |->
        IF Get(list[i], "id") # projectId
        THEN list[i]
        ELSE SetKey(list[i], ItemsKey(type),
                    SelectSeq(Get(list[i], ItemsKey(type)),
                              LAMBDA r : Get(r, "id") # itemId))]

\* The overlay of DeleteConfirmModal or ConfirmModal covers the window.
NoModal == deleteTarget = NoTarget /\ confirmModal = NoTarget

\* The frame of a store step that leaves the soft-delete history empty.
StoreStep(op, target) ==
    /\ storeOp' = op
    /\ storeId' = NoId
    /\ storeBefore' = << >>
    /\ storeTarget' = target
    /\ UNCHANGED canvasVars

\* The project a reducer has just changed.
Changed == Get(projects[CHOOSE i \in 1..Len(projects) : projects'[i] # projects[i]], "id")

\* handleDeleteRequest of a ProjectDetail open on a project of the list.
HandleDeleteRequest ==
    /\ NoModal
    /\ \E i \in 1..Len(projects) :
          /\ Get(projects[i], "isDeleted") = "false"
          /\ deleteTarget' = [type |-> "PROJECT", projectId |-> Get(projects[i], "id"),
                              id |-> Get(projects[i], "id")]
    /\ StoreStep("deleteRequest", deleteTarget')
    /\ UNCHANGED << syncVars, confirmModal >>

\* handleDeleteReportRequest / handleDeleteLogRequest: the buttons are on
\* the items the detail view shows, those not in the trash.
HandleDeleteSubItemRequest ==
    /\ NoModal
    /\ \E i \in 1..Len(projects), type \in {"REPORT", "LOG"} :
          /\ Get(projects[i], "isDeleted") = "false"
          /\ \E k \in 1..Len(Get(projects[i], ItemsKey(type))) :
                LET item == Get(projects[i], ItemsKey(type))[k]
                IN  /\ Get(item, "isDeleted") = "false"
                    /\ deleteTarget' = [type |-> type,
                                        projectId |-> Get(projects[i], "id"),
                                        id |-> Get(item, "id")]
    /\ StoreStep("deleteRequest", deleteTarget')
    /\ UNCHANGED << syncVars, confirmModal >>

\* DeleteConfirmModal onCancel: setDeleteTarget(null)
CancelDeleteTarget ==
    /\ deleteTarget # NoTarget
    /\ deleteTarget' = NoTarget
    /\ StoreStep("deleteCancel", deleteTarget)
    /\ UNCHANGED << syncVars, confirmModal >>

\* confirmDelete for a PROJECT target: handleDeleteProject, remembering
\* the list it was applied to.
StoreDelete ==
    /\ deleteTarget.type = "PROJECT"
    /\ HandleDeleteProject
    /\ projects' = SoftDelete(projects, deleteTarget.id)
    /\ deleteTarget' = NoTarget
    /\ storeOp' = "softDelete"
    /\ storeBefore' = projects
    /\ storeId' = IF Len(projects') = Len(projects) THEN Changed ELSE NoId
    /\ storeTarget' = NoTarget
    /\ UNCHANGED << canvasVars, confirmModal >>

\* confirmDelete for a REPORT or LOG target; project is the prop of the
\* render the modal is shown in.
StoreDeleteSubItem ==
    /\ deleteTarget.type \in {"REPORT", "LOG"}
    /\ SetProjects(SoftDeleteSubItem(projects, Find(projects, deleteTarget.projectId),
                                     deleteTarget.type, deleteTarget.id), "mutate")
    /\ deleteTarget' = NoTarget
    /\ StoreStep("softDeleteSubItem", deleteTarget)
    /\ UNCHANGED confirmModal

\* handleRestoreProject, from the trash view; the list before the
\* soft-delete stays remembered when this restore undoes it.
StoreRestore ==
    /\ NoModal
    /\ HandleRestoreProject
    /\ storeOp' = "restore"
    /\ storeId' = Changed
    /\ storeBefore' = IF storeOp = "softDelete" /\ storeId = storeId'
                      THEN storeBefore ELSE << >>
    /\ storeTarget' = NoTarget
    /\ UNCHANGED << canvasVars, deleteTarget, confirmModal >>

\* handleRestoreSubItem, from an entry of the trash view: deletedItems
\* lists the items in the trash of the projects that are not.
StoreRestoreSubItem ==
    /\ NoModal
    /\ \E i \in 1..Len(projects), type \in {"report", "log"} :
          /\ Get(projects[i], "isDeleted") = "false"
          /\ \E k \in 1..Len(Get(projects[i], ItemsKey(type))) :
                LET item == Get(projects[i], ItemsKey(type))[k]
                IN  /\ Get(item, "isDeleted") = "true"
                    /\ SetProjects(RestoreSubItem(projects, Get(projects[i], "id"),
                                                  type, Get(item, "id")), "mutate")
                    /\ StoreStep("restoreSubItem",
                                 [type |-> type, projectId |-> Get(projects[i], "id"),
                                  id |-> Get(item, "id")])
    /\ UNCHANGED << deleteTarget, confirmModal >>

\* handlePermanentDeleteProject, from a project entry of the trash view:
\* only setConfirmModal.
HandlePermanentDeleteProject ==
    /\ NoModal
    /\ \E i \in 1..Len(projects) :
          /\ Get(projects[i], "isDeleted") = "true"
          /\ confirmModal' = [type |-> "project", projectId |-> NoId,
                              id |-> Get(projects[i], "id")]
    /\ projects' = PermanentRequestList(projects, confirmModal')
    /\ StoreStep("permanentRequest", confirmModal')
    /\ UNCHANGED << isInitializing, syncId, syncStatus, hasServerUpdates, isOffline,
                    urlParam, localStore, pc, currentId, initReq, dirty, saveTimers,
                    puts, pollTimer, polls, refreshes, remote, lastOp, burst,
                    sinceChange, putsSinceChange, savingFor, putFailed, deleteTarget >>

\* handlePermanentDeleteSubItem, from a report or log entry of the trash
\* view: only setConfirmModal.
HandlePermanentDeleteSubItem ==
    /\ NoModal
    /\ \E i \in 1..Len(projects), type \in {"report", "log"} :
          /\ Get(projects[i], "isDeleted") = "false"
          /\ \E k \in 1..Len(Get(projects[i], ItemsKey(type))) :
                LET item == Get(projects[i], ItemsKey(type))[k]
                IN  /\ Get(item, "isDeleted") = "true"
                    /\ confirmModal' = [type |-> type,
                                        projectId |-> Get(projects[i], "id"),
                                        id |-> Get(item, "id")]
    /\ projects' = PermanentRequestList(projects, confirmModal')
    /\ StoreStep("permanentRequest", confirmModal')
    /\ UNCHANGED << isInitializing, syncId, syncStatus, hasServerUpdates, isOffline,
                    urlParam, localStore, pc, currentId, initReq, dirty, saveTimers,
                    puts, pollTimer, polls, refreshes, remote, lastOp, burst,
                    sinceChange, putsSinceChange, savingFor, putFailed, deleteTarget >>

\* ConfirmModal onCancel: setConfirmModal(null)
CancelConfirmModal ==
    /\ confirmModal # NoTarget
    /\ confirmModal' = NoTarget
    /\ StoreStep("permanentCancel", confirmModal)
    /\ UNCHANGED << syncVars, deleteTarget >>

\* confirmModal.onConfirm: the reducer over the current list with the
\* arguments of the request, then setConfirmModal(null).
ConfirmConfirmModal ==
    /\ confirmModal # NoTarget
    /\ SetProjects(IF confirmModal.type = "project"
                   THEN PermanentDeleteProject(projects, confirmModal.id)
                   ELSE PermanentDeleteSubItem(projects, confirmModal.projectId,
                                               confirmModal.type, confirmModal.id),
                   "mutate")
    /\ confirmModal' = NoTarget
    /\ StoreStep("permanentConfirm", confirmModal)
    /\ UNCHANGED deleteTarget

StoreNext ==
    \/ HandleDeleteRequest
    \/ HandleDeleteSubItemRequest
    \/ CancelDeleteTarget
    \/ StoreDelete
    \/ StoreDeleteSubItem
    \/ StoreRestore
    \/ StoreRestoreSubItem
    \/ HandlePermanentDeleteProject
    \/ HandlePermanentDeleteSubItem
    \/ CancelConfirmModal
    \/ ConfirmConfirmModal
    \/ RunEffects /\ UNCHANGED << canvasVars, storeVars >>

StoreSpec == StoreInit /\ [][StoreNext]_vars

\* ------------------------------------------------- the trash while synced
\* The sync engine at rest in a synced session whose remote document another
\* session has written: initialization ended with the identifier "a", the
\* effects have run, the first push has been answered.
SyncReady(list, theirs) ==
    /\ projects = list
    /\ isInitializing = FALSE
    /\ syncId = "a"
    /\ syncStatus = "saved"
    /\ hasServerUpdates = FALSE
    /\ isOffline = FALSE
    /\ urlParam = "a"
    /\ localStore = "a"
    /\ pc = "done"
    /\ currentId = NoId
    /\ initReq = NoReq
    /\ dirty = "none"
    /\ saveTimers = {}
    /\ puts = {}
    /\ pollTimer = PollEffectTimer("saved")
    /\ polls = {}
    /\ refreshes = {}
    /\ remote = [b \in BlobIds |-> IF b = "a" THEN Blob(Stringify(theirs)) ELSE NoBlob]
    /\ lastOp = "pollEffect"
    /\ burst = 0
    /\ sinceChange = 0
    /\ putsSinceChange = 0
    /\ savingFor = 0
    /\ putFailed = "no"

\* The default projects, each in the trash or not, here and in the remote
\* document.
TrashLists == {list \in StoreLists : Len(list) = Len(INITIAL_PROJECTS)}

TrashInit ==
    /\ \E list \in TrashLists, theirs \in TrashLists : SyncReady(list, theirs)
    /\ EditorClosed
    /\ StoreIdle

\* The refresh button of the sidebar, which an open modal covers.
TrashRefresh == NoModal /\ HandleRefresh

\* The trash handlers next to a manual refresh, whose GET is answered
\* whenever the remote store answers it.
TrashNext ==
    \/ HandleDeleteRequest
    \/ CancelDeleteTarget
    \/ StoreDelete
    \/ StoreRestore
    \/ HandlePermanentDeleteProject
    \/ CancelConfirmModal
    \/ ConfirmConfirmModal
    \/ RunEffects /\ UNCHANGED << canvasVars, storeVars >>
    \/ TrashRefresh /\ UNCHANGED << canvasVars, storeVars >>
    \/ RefreshSuccess /\ UNCHANGED << canvasVars, storeVars >>
    \/ RefreshFailure /\ UNCHANGED << canvasVars, storeVars >>

TrashSpec == TrashInit /\ [][TrashNext]_vars

\* =================================================================== claims
NoRequests ==
    /\ saveTimers = {} /\ puts = {} /\ polls = {} /\ refreshes = {}
    /\ ~pollTimer.active
    /\ initReq.kind = "none"

\* An identifier that names an existing blob holding a list.
ValidId(id) == id \in BlobIds /\ remote[id].exists /\ remote[id].body.isArray

InitEndOps == {"initGetOk", "initCreateOk", "initCreateNoLocation", "initCreateNotOk",
               "initCreateNetErr", "initCreateTimeout", "initCatch"}

GetFailOps == {"initGetNotOk", "initGetNetErr", "initGetTimeout"}

RefreshFailOps == {"refreshNotList", "refreshNotOk", "refreshNetErr", "refreshTimeout"}

\* C1: once initialization has finished the session is synced (identifier
\* set, not offline) or offline, for every outcome of the GET and the CREATE.
C1_SyncedOrOffline ==
    ~isInitializing => ((syncId # NoId /\ ~isOffline) \/ isOffline)

\* C2: initialization terminates whatever the GET and the CREATE do: it ends
\* with the fetched list or the default projects, and an exception that
\* escapes the sequence ends with the default projects and offline mode.
C2_InitTerminates ==
    /\ <>(~isInitializing)
    /\ [](lastOp \in InitEndOps =>
            /\ ~isInitializing
            /\ projects = IF lastOp = "initGetOk"
                          THEN ParseBody(remote[syncId].body)
                          ELSE INITIAL_PROJECTS)
    /\ [](lastOp = "initCatch" => projects = INITIAL_PROJECTS /\ isOffline)

C2_Witness ==
    /\ lastOp = "initCreateTimeout"
    /\ ~isInitializing
    /\ ResolveId(urlParam, localStore) = "a"

\* C3 as stated: with an existing valid identifier in the address or the
\* local fallback, initialization never issues a CREATE.
C3_ValidIdNeverCreates ==
    pc = "create" => ~ValidId(ResolveId(urlParam, localStore))

\* C3 amended: with an existing valid identifier a CREATE is issued only
\* after the GET for it failed (non-OK status, no response, timeout); a GET
\* answered OK with the list is never followed by a CREATE.
C3_ValidIdCreatesOnlyAfterGetFailure ==
    [][(pc = "get" /\ ValidId(currentId) /\ pc' = "create") => lastOp' \in GetFailOps]_vars

C3_Witness ==
    /\ lastOp = "initGetOk"
    /\ syncId = "a"
    /\ ~isOffline
    /\ ~remote["n"].exists

\* C4: a CREATE that fails with a network error ends initialization with the
\* default projects and offline; from then on no request is issued or
\* pending, syncStatus never changes and the project list changes only by a
\* local mutation.
C4_OfflineDegradation ==
    /\ [](lastOp = "initCreateNetErr" =>
            /\ ~isInitializing /\ isOffline /\ syncId = NoId
            /\ projects = INITIAL_PROJECTS)
    /\ [][(isOffline /\ ~isInitializing) =>
            /\ isOffline' /\ NoRequests'
            /\ syncStatus' = syncStatus
            /\ (projects' # projects => lastOp' = "mutate")]_vars

C4_Witness ==
    /\ isOffline /\ syncId = NoId
    /\ lastOp = "refreshIgnored"
    /\ projects = SoftDelete(SoftDelete(INITIAL_PROJECTS, "1"), "2")
    /\ NoRequests

\* C5: while synced, after the effects of a change of the project list have
\* run, exactly one debounce timer is pending, it carries the current list
\* and fires DEBOUNCE_S after the latest change; the PUT it issues is the
\* only one since that change and carries the list as it then is.  So N
\* mutations less than a second apart yield one PUT, one second after the
\* Nth, with the list after the Nth.
C5_DebounceCoalescing ==
    (Synced /\ dirty = "none") =>
        /\ Cardinality(saveTimers) <= 1
        /\ \A t \in saveTimers :
              /\ t.projects = projects
              /\ t.left = DEBOUNCE_S - sinceChange
              /\ putsSinceChange = 0
        /\ saveTimers = {} => putsSinceChange = 1 /\ sinceChange >= DEBOUNCE_S
        /\ lastOp = "putIssued" =>
              /\ sinceChange = DEBOUNCE_S
              /\ [body |-> Stringify(projects)] \in puts

C5_Witness ==
    /\ Synced
    /\ lastOp = "putIssued"
    /\ burst = 2
    /\ putsSinceChange = 1

\* C6: syncStatus is saving once the save effect of a mutation has run, saved
\* after a PUT that succeeded, error after a PUT that failed, a non-success
\* status included.
C6_PushStatus ==
    /\ (lastOp = "saveEffect" /\ Synced) => syncStatus = "saving"
    /\ lastOp = "putOk" => syncStatus = "saved"
    /\ lastOp \in {"putNotOk", "putNetErr"} => syncStatus = "error"

\* C7: every sync call is aborted 5 s after it was issued, so syncStatus is
\* never saving for longer than the debounce plus the timeout after it was
\* last set to saving.
C7_SavingIsBounded ==
    syncStatus = "saving" => savingFor <= DEBOUNCE_S + FETCH_TIMEOUT_S

\* C8: when a poll raises the has-updates flag, the remote document differs
\* from the current local list in serialized form and no save is in progress.
C8_PollRaisesOnlyOnRealDifference ==
    lastOp = "pollRaise" =>
        /\ Stringify(projects) # Stringify(ParseBody(remote[syncId].body))
        /\ syncStatus # "saving"

\* C9: a refresh answered OK with a list replaces the local list by exactly
\* the fetched one, clears the has-updates flag and sets syncStatus to saved.
C9_RefreshReplaces ==
    lastOp = "refreshOk" =>
        /\ projects = ParseBody(remote[syncId].body)
        /\ ~hasServerUpdates
        /\ syncStatus = "saved"

C9_Witness ==
    /\ lastOp = "refreshOk"
    /\ syncId = "n"
    /\ projects = SHARED_PROJECTS

\* C10: a failed refresh sets syncStatus to error and leaves the project
\* list, the identifier, the offline flag and the has-updates flag as they
\* were; the session stays synced, and the save effect of a later mutation
\* still schedules the push.
C10_RefreshFailure ==
    /\ [][lastOp' \in RefreshFailOps =>
            /\ syncStatus' = "error"
            /\ UNCHANGED << projects, syncId, isOffline, hasServerUpdates >>
            /\ Synced']_vars
    /\ []((Synced /\ lastOp = "saveEffect") =>
            /\ syncStatus = "saving"
            /\ saveTimers = {[left |-> DEBOUNCE_S, projects |-> projects]})

C10_Witness ==
    /\ lastOp = "refreshTimeout"
    /\ syncStatus = "error"
    /\ hasServerUpdates
    /\ Synced

\* C11: every PUT that fires carries the full local list as it is when the
\* debounce timer fires; a PUT the store accepts replaces the remote
\* document by exactly that body; and while the has-updates flag is raised
\* a local mutation is still possible and the save effect still schedules
\* its push, DEBOUNCE_S ahead, with the current list.
C11_LastWriterWins ==
    /\ [][lastOp' = "putIssued" =>
            /\ \E t \in saveTimers : t.left = 0 /\ saveTimers' = saveTimers \ {t}
            /\ puts' = puts \cup {[body |-> Stringify(projects)]}]_vars
    /\ [][lastOp' = "putOk" =>
            \E p \in puts : puts' = puts \ {p} /\ remote'[syncId] = Blob(p.body)]_vars
    /\ []((hasServerUpdates /\ ~isInitializing /\ dirty = "none") =>
            ENABLED (HandleDeleteProject \/ HandleRestoreProject))
    /\ []((hasServerUpdates /\ Synced /\ lastOp = "saveEffect") =>
            saveTimers = {[left |-> DEBOUNCE_S, projects |-> projects]})

C11_Witness ==
    /\ lastOp = "putIssued"
    /\ hasServerUpdates
    /\ burst >= 1
    /\ remote[syncId].body # Stringify(projects)

\* ---- claims about the image canvas
\* The image of the pointer session as it is now, and as it was at
\* pointer-down.
Dragged == ImageOf(images, session.id)

AtStart == session.image

\* The last step was a move event of a resize session in this mode.
Resized(isCropping) ==
    /\ canvasOp = "resize"
    /\ session.isCropping = isCropping

\* a / b = c / d for positive b and d
SameRatio(a, b, c, d) == Times(a, d) = Times(c, b)

\* C12: after a move event of a corner resize in scale mode of a non-cropped
\* image, width / height is the width / height of the frame at pointer-down,
\* whatever the pointer delta.
C12_CornerKeepsAspectRatio ==
    (Resized(FALSE) /\ Len(session.direction) = 2 /\ ~AtStart.isCropped) =>
        SameRatio(Dragged.width, Dragged.height, AtStart.width, AtStart.height)

\* C13 as stated: after a move event of a crop-mode resize whose direction
\* contains w (n), x + cropX (y + cropY) is what it was at pointer-down and
\* the width (height) has changed by the pointer delta.
C13_CropWindowingByDelta ==
    /\ (Resized(TRUE) /\ Includes(session.direction, "w")) =>
          /\ Plus(Dragged.x, Dragged.cropX)
                = Plus(AtStart.x, OrElse(AtStart.cropX, Num(0)))
          /\ Dragged.width = Minus(AtStart.width, Num(session.deltaX))
    /\ (Resized(TRUE) /\ Includes(session.direction, "n")) =>
          /\ Plus(Dragged.y, Dragged.cropY)
                = Plus(AtStart.y, OrElse(AtStart.cropY, Num(0)))
          /\ Dragged.height = Minus(AtStart.height, Num(session.deltaY))

\* C13 amended: x + cropX (y + cropY) is what it was at pointer-down, and
\* the width (height) has changed by the pointer delta but is never less
\* than 20.
C13_CropWindowingFloored ==
    /\ (Resized(TRUE) /\ Includes(session.direction, "w")) =>
          /\ Plus(Dragged.x, Dragged.cropX)
                = Plus(AtStart.x, OrElse(AtStart.cropX, Num(0)))
          /\ Dragged.width = Max(Num(20), Minus(AtStart.width, Num(session.deltaX)))
    /\ (Resized(TRUE) /\ Includes(session.direction, "n")) =>
          /\ Plus(Dragged.y, Dragged.cropY)
                = Plus(AtStart.y, OrElse(AtStart.cropY, Num(0)))
          /\ Dragged.height = Max(Num(20), Minus(AtStart.height, Num(session.deltaY)))

C13_Witness ==
    /\ Resized(TRUE)
    /\ session.direction = <<"w">>
    /\ session.deltaX = -400
    /\ Dragged.width = Num(700)
    /\ Dragged.cropX = Num(400)
    /\ Dragged.x = Num(-300)

\* C14: every image, in the editor and in the document, has a width and a
\* height of at least 20.
C14_MinimumSize ==
    \A list \in {images, itemImages} : \A i \in 1..Len(list) :
        /\ ~Less(list[i].width, Num(20))
        /\ ~Less(list[i].height, Num(20))

C14_Witness ==
    /\ Resized(TRUE)
    /\ session.direction = <<"s", "e">>
    /\ session.deltaX = -400 /\ session.deltaY = -400
    /\ Dragged.width = Num(20)
    /\ Dragged.height = Num(20)

\* C15: after a move event of a scale-mode resize, the inner size and the
\* crop offset have changed by the ratio the frame has changed by, on each
\* axis, and the inner size is positive.
C15_ResizeIsZoom ==
    Resized(FALSE) =>
        LET startImgW == OrElse(AtStart.originalWidth, AtStart.width)
            startImgH == OrElse(AtStart.originalHeight, AtStart.height)
            startCropX == OrElse(AtStart.cropX, Num(0))
            startCropY == OrElse(AtStart.cropY, Num(0))
        IN  /\ SameRatio(Dragged.originalWidth, startImgW, Dragged.width, AtStart.width)
            /\ SameRatio(Dragged.originalHeight, startImgH, Dragged.height, AtStart.height)
            /\ Dragged.cropX = Times(startCropX, Div(Dragged.width, AtStart.width))
            /\ Dragged.cropY = Times(startCropY, Div(Dragged.height, AtStart.height))
            /\ Less(Num(0), Dragged.originalWidth)
            /\ Less(Num(0), Dragged.originalHeight)

\* C16: an image in crop mode is the selected image.
C16_CropFollowsSelection ==
    croppingId # NoImage => croppingId = selectedId

\* C17: an image leaves the collection of an open editor only by
\* confirmDelete, which removes the pending-delete target and nothing else;
\* requestDelete and cancelDelete leave the collection as it is.
C17_TwoStepDelete ==
    [][(editing /\ editing') =>
          /\ ~(ImageIds(images) \subseteq ImageIds(images')) =>
                /\ canvasOp' = "confirmDelete"
                /\ deleteModalTargetId # NoImage
                /\ images' = FilterOut(images, deleteModalTargetId)
          /\ canvasOp' \in {"requestDelete", "cancelDelete"} => images' = images]_vars

\* C18 as stated: after every mutating canvas operation the images of the
\* owning item in the project list are the canvas collection.
C18_PersistsToDocument ==
    canvasOp \in {"add", "move", "resize", "toggleCrop", "confirmDelete"} =>
        itemImages = images

\* C18 amended: the canvas hands every update to the editor at once, and the
\* images of the owning item in the project list change only when the
\* editor's save button is pressed, to the editor's collection; cancelling
\* the editor leaves them as they were.
C18_PersistsOnSave ==
    [][/\ itemImages' # itemImages => canvasOp' = "save"
       /\ canvasOp' = "save" => itemImages' = images /\ ~editing'
       /\ canvasOp' = "cancel" => itemImages' = itemImages /\ ~editing']_vars

C18_Witness ==
    /\ canvasOp = "cancel"
    /\ created = 2
    /\ sessions >= 1
    /\ itemImages = << >>

\* C19: the read-only renderer and the editable renderer draw every image
\* with the same frame, inner size and inner translation, and a non-cropped
\* image is drawn the same after the document went through JSON.
C19_RenderersAgree ==
    /\ [](\A list \in {images, itemImages} : \A i \in 1..Len(list) :
            ReadOnlyGeometry(list[i]) = EditableGeometry(list[i]))
    /\ [][canvasOp' = "roundTrip" =>
            /\ Len(itemImages') = Len(itemImages)
            /\ \A i \in 1..Len(itemImages) :
                  ~itemImages[i].isCropped =>
                      ReadOnlyGeometry(itemImages'[i]) = ReadOnlyGeometry(itemImages[i])]_vars

C19_Witness ==
    /\ canvasOp = "roundTrip"
    /\ Len(itemImages) = 1
    /\ ~itemImages[1].isCropped
    /\ itemImages[1].originalWidth # Undefined
    /\ itemImages[1].originalWidth # itemImages[1].width

\* ---- claims about the document store
\* C20: a soft-delete changes only the isDeleted flag of its project, which
\* stays where it is in the list; a restore of that project right after it
\* gives back the list as it was before the soft-delete, every field of
\* every project included.
C20_SoftDeleteRestoreRoundTrip ==
    /\ storeOp = "softDelete" =>
          /\ Len(projects) = Len(storeBefore)
          /\ \A i \in 1..Len(storeBefore) :
                IF Get(storeBefore[i], "id") = storeId
                THEN /\ Get(storeBefore[i], "isDeleted") = "false"
                     /\ Get(projects[i], "isDeleted") = "true"
                     /\ \A k \in 1..Len(storeBefore[i]) :
                           /\ projects[i][k][1] = storeBefore[i][k][1]
                           /\ storeBefore[i][k][1] # "isDeleted" =>
                                 projects[i][k] = storeBefore[i][k]
                ELSE projects[i] = storeBefore[i]
    /\ (storeOp = "restore" /\ storeBefore # << >>) => projects = storeBefore

C20_Witness ==
    /\ storeOp = "restore"
    /\ storeId = "1"
    /\ storeBefore # << >>
    /\ Len(projects) = 3
    /\ Get(projects[3], "isDeleted") = "true"

\* The two objects have the same keys in the same order and the same value
\* under every key but this one, where the second has this value.
SameBut(before, after, key, value) ==
    /\ Len(after) = Len(before)
    /\ \A j \in 1..Len(before) :
          /\ after[j][1] = before[j][1]
          /\ after[j][2] = IF before[j][1] = key THEN value ELSE before[j][2]

\* The list after differs from the list before in nothing but the
\* isDeleted flag, now this one, of the items with this id under this key
\* of the project with this id.
OnlyItemFlag(before, after, projectId, key, itemId, flag) ==
    /\ Len(after) = Len(before)
    /\ \A i \in 1..Len(before) :
          IF Get(before[i], "id") # projectId
          THEN after[i] = before[i]
          ELSE LET b == Get(before[i], key)
                   a == Get(after[i], key)
               IN  /\ SameBut(before[i], after[i], key, a)
                   /\ Len(a) = Len(b)
                   /\ \A k \in 1..Len(b) :
                         IF Get(b[k], "id") = itemId
                         THEN SameBut(b[k], a[k], "isDeleted", flag)
                         ELSE a[k] = b[k]

\* C21: the soft-delete and the restore of a report or log change nothing
\* but the isDeleted flag of the item with that id in that list of that
\* project: sibling items, the other list, the project's other fields and
\* every other project stay as they were.
C21_SubItemScoped ==
    [][/\ storeOp' = "softDeleteSubItem" /\ projects' # projects =>
             /\ storeTarget' = deleteTarget
             /\ OnlyItemFlag(projects, projects', storeTarget'.projectId,
                             IF storeTarget'.type = "REPORT" THEN "reports" ELSE "logs",
                             storeTarget'.id, "true")
       /\ storeOp' = "restoreSubItem" /\ projects' # projects =>
             OnlyItemFlag(projects, projects', storeTarget'.projectId,
                          IF storeTarget'.type = "report" THEN "reports" ELSE "logs",
                          storeTarget'.id, "false")]_vars

\* Report r1 of project 1 has just been restored while the log r1 of
\* project 1 and the report r1 of project 3 are in the trash.
C21_Witness ==
    /\ storeOp = "restoreSubItem"
    /\ storeTarget = [type |-> "report", projectId |-> "1", id |-> "r1"]
    /\ Len(projects) = 3
    /\ Get(projects[1], "reports") = << Item("r1", "false"), Item("r2", "false") >>
    /\ Get(projects[1], "logs") = << Item("r1", "true") >>
    /\ Get(projects[3], "reports") = << Item("r1", "true") >>

\* The records of a project list: its projects, reports and logs.
Records(list) ==
    UNION { {<< Get(list[i], "id"), "project", "-" >>}
            \cup { << Get(list[i], "id"), "reports", Get(Get(list[i], "reports")[k], "id") >> :
                      k \in 1..Len(Get(list[i], "reports")) }
            \cup { << Get(list[i], "id"), "logs", Get(Get(list[i], "logs")[k], "id") >> :
                      k \in 1..Len(Get(list[i], "logs")) } : i \in 1..Len(list) }

\* The records a permanent deletion with these arguments is to remove.
Targeted(list, target) ==
    IF target.type = "project"
    THEN {r \in Records(list) : r[1] = target.id}
    ELSE {<< target.projectId, IF target.type = "report" THEN "reports" ELSE "logs",
             target.id >>}

\* after is before without the elements at the positions in gone.
Without(before, after, gone) ==
    /\ Len(after) = Len(before) - Cardinality(gone)
    /\ \A i \in 1..Len(before) :
          i \notin gone =>
              after[i - Cardinality({g \in gone : g < i})] = before[i]

AbsentOrLiteral == {NoId, "null", "undefined"}

\* C23 as stated: a parameter that is present and not the literal null or
\* undefined is the identifier the GET is issued for; the stored identifier
\* is used only otherwise, and a stored literal null or undefined issues no
\* GET.
C23_ParamPresentIsUsed ==
    lastOp = "initResolve" =>
        /\ urlParam \notin AbsentOrLiteral => pc = "get" /\ currentId = urlParam
        /\ (pc = "get" /\ currentId # urlParam) =>
              urlParam \in AbsentOrLiteral /\ currentId = localStore
        /\ (urlParam \in AbsentOrLiteral /\ localStore \in {"null", "undefined"}) =>
              pc = "create"

\* C23 amended: a parameter that is present, not empty and not the literal
\* null or undefined is the identifier the GET is issued for; otherwise the
\* stored identifier is, unless it is absent, empty or the literal null or
\* undefined, and then no GET is issued.
C23_ParamNonEmptyIsUsed ==
    lastOp = "initResolve" =>
        IF urlParam \notin AbsentOrLiteral \cup {""}
        THEN pc = "get" /\ currentId = urlParam
        ELSE IF localStore \notin AbsentOrLiteral \cup {""}
             THEN pc = "get" /\ currentId = localStore
             ELSE pc = "create" /\ currentId = NoId

\* The address is "?syncId=" and the stored identifier is used.
C23_Witness ==
    /\ lastOp = "initResolve"
    /\ urlParam = ""
    /\ localStore = "a"
    /\ pc = "get"
    /\ currentId = "a"

GetFailedOps == {"initGetNotOk", "initGetNetErr", "initGetTimeout", "initGetNotList"}

\* C24: the GET of initialization succeeds only with an OK status and a
\* list body; every other outcome drops the identifier and issues the
\* CREATE without touching the project list; the CREATE stores the default
\* projects, and initialization then ends with the default projects.
C24_GetFailureCreates ==
    [][/\ lastOp' = "initGetOk" =>
             /\ pc = "get"
             /\ Exists(currentId)
             /\ remote[currentId].body.isArray
             /\ projects' = remote[currentId].body.items
             /\ syncId' = currentId
       /\ (pc = "get" /\ pc' # "get") =>
             lastOp' \in GetFailedOps \cup {"initGetOk", "initCatch"}
       /\ (pc = "get" /\ lastOp' \in GetFailedOps) =>
             /\ currentId' = NoId
             /\ pc' = "create"
             /\ initReq' = [kind |-> "create", age |-> 0]
             /\ projects' = projects
             /\ syncId' = NoId
       /\ (pc = "create" /\ pc' = "done") =>
             /\ projects' = INITIAL_PROJECTS
             /\ remote'["n"].exists => remote'["n"].body = Stringify(INITIAL_PROJECTS)
             /\ syncId' \in {NoId, "n"}]_vars

\* The GET was answered OK with a body that is not a list, and the CREATE
\* is pending.
C24_Witness ==
    /\ lastOp = "initGetNotList"
    /\ pc = "create"
    /\ initReq.kind = "create"
    /\ urlParam = "b"
    /\ currentId = NoId

\* C25: after a move event of a resize by the west (north) handle, x + width
\* (y + height) is what it was at pointer-down, in both modes and for every
\* pointer delta.
C25_OppositeEdgeFixed ==
    canvasOp = "resize" =>
        /\ Includes(session.direction, "w") =>
              Plus(Dragged.x, Dragged.width) = Plus(AtStart.x, AtStart.width)
        /\ Includes(session.direction, "n") =>
              Plus(Dragged.y, Dragged.height) = Plus(AtStart.y, AtStart.height)

C27_ToggleCropSnapshotsOnce ==
    [][/\ (canvasOp' = "toggleCrop" /\ croppingId' # croppingId) =>
             LET img == ImageOf(images, selectedId)
             IN  /\ selectedId' = selectedId
                 /\ Len(images') = Len(images)
                 /\ \A i \in 1..Len(images) :
                       images[i].id # selectedId => images'[i] = images[i]
                 /\ IF croppingId = selectedId
                    THEN croppingId' = NoImage /\ images' = images
                    ELSE /\ croppingId' = selectedId
                         /\ IF img.isCropped
                            THEN images' = images
                            ELSE ImageOf(images', selectedId) =
                                    [img EXCEPT !.isCropped = TRUE,
                                                !.originalWidth = img.width,
                                                !.originalHeight = img.height,
                                                !.cropX = Num(0),
                                                !.cropY = Num(0)]
       /\ (editing /\ editing') =>
             \A id \in ImageIds(images) \cap ImageIds(images') :
                 ImageOf(images, id).isCropped => ImageOf(images', id).isCropped]_vars

\* Crop mode has just been entered again on an image whose frame is no
\* longer the size of the snapshot.
C27_Witness ==
    /\ canvasOp = "toggleCrop"
    /\ croppingId = "1"
    /\ ImageOf(images, "1").isCropped
    /\ ImageOf(images, "1").originalWidth = Num(300)
    /\ ImageOf(images, "1").width = Num(20)
    /\ ImageOf(images, "1").cropX = Num(-300)

\* C28: after a move event of a move session the image is the image at
\* pointer-down with x and y shifted by the pointer delta and no other
\* field changed; a pointer-down on the image in crop mode selects it and
\* starts no session, and no move session is ever on the image in crop
\* mode.
C28_MoveTranslates ==
    /\ canvasOp = "move" =>
          Dragged = [AtStart EXCEPT !.x = Plus(AtStart.x, Num(session.deltaX)),
                                    !.y = Plus(AtStart.y, Num(session.deltaY))]
    /\ canvasOp = "pointerDown" =>
          /\ session = NoSession
          /\ selectedId = croppingId
    /\ session.kind = "move" => session.id # croppingId

\* A cropped image dragged off the canvas to the left and further down.
C28_Witness ==
    /\ canvasOp = "move"
    /\ session.deltaX = -400 /\ session.deltaY = 300
    /\ Dragged.x = Num(-300)
    /\ Dragged.y = Num(400)
    /\ Dragged.isCropped
    /\ Dragged.width = Num(20)

\* C29: a poll response changes nothing except possibly raising the
\* has-updates flag: the project list, syncStatus, the identifier, the
\* offline flag, the pending saves and the remote document are left alone
\* whatever the outcome; the flag is never lowered, and it is left as it was
\* when the poll failed (no response, non-OK status, non-list body).
PollAnswered == polls' # polls /\ polls' \subseteq polls

C29_PollOnlyRaisesFlag ==
    [][PollAnswered =>
        /\ UNCHANGED << projects, syncStatus, syncId, isOffline, isInitializing,
                        localStore, saveTimers, puts, refreshes, remote >>
        /\ hasServerUpdates => hasServerUpdates'
        /\ (lastOp' = "pollFail" \/ ~IsArray(remote[syncId].body))
              => hasServerUpdates' = hasServerUpdates]_vars

\* A poll answered with a non-list body while the flag was down and a push
\* had failed: flag still down, status still error.
C29_Witness ==
    /\ lastOp = "pollQuiet"
    /\ ~IsArray(remote[syncId].body)
    /\ ~hasServerUpdates
    /\ syncStatus = "error"


\* C30: a failed push is not retried automatically.  After syncStatus became
\* error because a PUT failed, the next change of the project list marks the
\* save effect as due, and the effect then schedules one PUT of the current
\* full list and sets syncStatus to saving.
ChangeReschedules ==
    /\ (putFailed # "no" /\ lastOp' = "mutate") => dirty' = "save"
    /\ (putFailed # "no" /\ lastOp' = "saveEffect") =>
          /\ lastOp = "mutate"
          /\ saveTimers' = {[left |-> DEBOUNCE_S, projects |-> projects']}
          /\ syncStatus' = "saving"

FillsFrame(img) ==
    \/ \A f \in OptionalFields : img[f] = Undefined
    \/ /\ img.originalWidth = img.width
       /\ img.originalHeight = img.height
       /\ img.cropX = Num(0)
       /\ img.cropY = Num(0)

C31_UncroppedFillsFrame ==
    \A i \in 1..Len(images) : ~images[i].isCropped => FillsFrame(images[i])


\* C32: for every cropped image the inner rectangle (cropX, cropY,
\* originalWidth, originalHeight) covers the frame rectangle
\* (0, 0, width, height).
LessEq(a, b) == ~Less(b, a)

Covers(img) ==
    /\ LessEq(img.cropX, Num(0))
    /\ LessEq(img.cropY, Num(0))
    /\ LessEq(img.width, Plus(img.cropX, img.originalWidth))
    /\ LessEq(img.height, Plus(img.cropY, img.originalHeight))

C32_CropCoverage ==
    \A i \in 1..Len(images) : images[i].isCropped => Covers(images[i])


\* C33: offline mode is permanent.  From a state with the offline flag set,
\* every step leaves the flag set and syncStatus as it is, and leaves no
\* timer, GET, PUT or CREATE pending or issued.
OfflineIsQuiet == isOffline' /\ syncStatus' = syncStatus /\ NoRequests'

\* As stated: and the sync identifier is unset.
C33_OfflineNoIdentifier ==
    [][isOffline => (OfflineIsQuiet /\ syncId' = NoId)]_vars

\* C33, as the code has it: and the sync identifier is what it was when the
\* flag was set (set, when the fallback of the outer catch ran after
\* setSyncId; unset otherwise).
C33_OfflineIsPermanent ==
    [][isOffline => (OfflineIsQuiet /\ syncId' = syncId)]_vars

\* Offline with an identifier: after a mutation, a refresh was asked for.
C33_Witness ==
    /\ isOffline /\ syncId = "a"
    /\ lastOp = "refreshIgnored"
    /\ projects = SoftDelete(INITIAL_PROJECTS, "1")
    /\ NoRequests


\* C34: a PUT is issued only in response to a local mutation: when a PUT is
\* issued, at least one mutation of the project list was made since the
\* list was last loaded (by the end of initialization or by a refresh) and
\* since the last quiet period.
C34_PutOnlyAfterMutation ==
    lastOp = "putIssued" => burst >= 1


\* C35: while the session is synced and the effects of the last commit have
\* run, syncStatus saved means that no debounce timer is pending and no PUT
\* is in flight: every local mutation has been pushed and answered.
C35_SavedIsTruthful ==
    (Synced /\ dirty = "none" /\ syncStatus = "saved") =>
        saveTimers = {} /\ puts = {}


\* C36: while the session is synced the poll period is not restarted or
\* postponed: the time left until the next poll GET never grows, except
\* when the interval fires and the GET is issued.
C36_PollPeriodNotPostponed ==
    [][(Synced /\ pollTimer.active /\ pollTimer'.active /\ lastOp' # "pollIssued")
          => pollTimer'.left <= pollTimer.left]_vars


\* C37: while the canvas is mounted, selectedId, croppingId and the pending
\* delete target are each unset or the id of an image in the collection.
C37_NoDanglingReference ==
    editing =>
        \A ref \in {selectedId, croppingId, deleteModalTargetId} :
            ref = NoImage \/ ref \in ImageIds(images)


\* C38: a move or resize update of a pointer session, and a crop toggle,
\* change only the image they are for: every other image of the collection
\* is still there afterwards, at its place and unchanged.
C38_UpdateLeavesOthers ==
    [][canvasOp' \in {"move", "resize", "toggleCrop"} =>
          LET target == IF canvasOp' = "toggleCrop" THEN selectedId ELSE session.id
          IN  \A i \in 1..Len(images) :
                  images[i].id # target =>
                      i <= Len(images') /\ images'[i] = images[i]]_vars


\* The isDeleted flag of the record a permanent deletion with these
\* arguments is for, "absent" when the list does not hold it.
FlagOf(list, target) ==
    LET ps == SelectSeq(list, LAMBDA p : Get(p, "id") =
                  (IF target.type = "project" THEN target.id ELSE target.projectId))
        items == IF ps = << >> \/ target.type = "project" THEN << >>
                 ELSE SelectSeq(Get(ps[1], ItemsKey(target.type)),
                                LAMBDA r : Get(r, "id") = target.id)
    IN  CASE ps = << >> -> "absent"
          [] target.type = "project" -> Get(ps[1], "isDeleted")
          [] items = << >> -> "absent"
          [] OTHER -> Get(items[1], "isDeleted")

\* C39: when the confirmation of a permanent deletion is accepted and
\* removes the record it is for, that record's isDeleted flag is true at
\* that moment; and restoring a project leaves the reports and logs of
\* every project as they were.
C39_TrashLifecycle ==
    [][/\ (confirmModal # NoTarget /\ confirmModal' = NoTarget /\ projects' # projects
             /\ lastOp' = "mutate")
          => FlagOf(projects, confirmModal) = "true"
       /\ (storeOp' = "restore" /\ lastOp' = "mutate" /\ projects' # projects)
          => \A i \in 1..Len(projects) :
                 /\ Get(projects'[i], "reports") = Get(projects[i], "reports")
                 /\ Get(projects'[i], "logs") = Get(projects[i], "logs")]_vars

====
